---- MODULE Spec2Model ----
(***************************************************************************)
(* Buffer manager (src/s3/buf.C) and heap-file layer (src/s4/heapfile.C)   *)
(* of minirel.  Every public operation is one atomic action (the design is *)
(* single-threaded); the operations themselves are operators over a record *)
(* holding the buffer manager's state, so that the heap-file layer can     *)
(* call several of them inside one of its own operations.                  *)
(***************************************************************************)
EXTENDS Integers, Sequences, FiniteSets, TLC

\* ---------------------------------------------------------------- bounds
\* BufMgr::BufMgr(bufs): the size of the pool.
NumBufs == 2
\* Number of files opened through the catalog.
NumFiles == 2
\* Highest page number of a file.
MaxPageNo == 1
\* Cap on a frame's pinCnt (the guards of the pinning actions).
MaxPin == 2
\* Highest byte value a client writes into a pinned page.
MaxVal == 1

Frames == 0 .. (NumBufs - 1)
Files == 1 .. NumFiles
PageNos == 0 .. MaxPageNo
Keys == Files \X PageNos
Vals == 0 .. MaxVal
NULL == 0
NoFrame == -1

VARIABLES
  bufTable,   \* BufDesc[numBufs]
  bufPool,    \* Page[numBufs]: the content of each frame
  hashTable,  \* BufHashTbl: (file, pageNo) -> frameNo, NoFrame when absent
  clockHand,  \* the clock hand
  disk,       \* the paged file store: (file, pageNo) -> content on disk
  expect,     \* history: what each page held when it last left the pool dirty
  heapFile,   \* the HeapFileScan / InsertFileScan object in use
  allocated,  \* the paged file store: number of pages of the heap file
  hist,       \* history: RIDs inserted, RIDs the scan in progress returned
  filter      \* the predicate a HeapFileScan is started with (startScan)

bufvars == <<bufTable, bufPool, hashTable, clockHand, disk, expect>>
hfvars == <<heapFile, allocated, hist, filter>>
vars == <<bufTable, bufPool, hashTable, clockHand, disk, expect,
          heapFile, allocated, hist, filter>>

\* ---------------------------------------------------------------- BufDesc
\* BufDesc::Clear(): everything but frameNo is reset.
Clear(d) ==
  [frameNo |-> d.frameNo, valid |-> FALSE, file |-> NULL, pageNo |-> -1,
   pinCnt |-> 0, dirty |-> FALSE, refbit |-> FALSE]

\* BufDesc::Set(file, pageNo): the descriptor of a freshly pinned page.
Set(d, file, pageNo) ==
  [frameNo |-> d.frameNo, valid |-> TRUE, file |-> file, pageNo |-> pageNo,
   pinCnt |-> 1, dirty |-> FALSE, refbit |-> TRUE]

\* ---------------------------------------------------------------- BufHashTbl
lookup(h, file, pageNo) ==
  IF <<file, pageNo>> \in DOMAIN h /\ h[<<file, pageNo>>] # NoFrame
  THEN [status |-> "OK", frameNo |-> h[<<file, pageNo>>]]
  ELSE [status |-> "HASHNOTFOUND", frameNo |-> NoFrame]

insert(h, file, pageNo, frameNo) ==
  IF lookup(h, file, pageNo).status = "OK"
  THEN [status |-> "HASHTBLERROR", h |-> h]
  ELSE [status |-> "OK", h |-> [h EXCEPT ![<<file, pageNo>>] = frameNo]]

remove(h, file, pageNo) ==
  IF lookup(h, file, pageNo).status = "OK"
  THEN [status |-> "OK", h |-> [h EXCEPT ![<<file, pageNo>>] = NoFrame]]
  ELSE [status |-> "HASHNOTFOUND", h |-> h]

\* ---------------------------------------------------------------- BufMgr
\* The buffer manager's state as one record, with the outcome of the call in
\* progress: status, the frame allocBuf handed out (allocFrame), whether that
\* frame held a page (victim), the frame of the page returned to the caller
\* (frame), the page number allocPage returned, the File calls issued, and
\* the number of times the call advanced the clock hand.
BM ==
  [bufTable |-> bufTable, bufPool |-> bufPool, hashTable |-> hashTable,
   clockHand |-> clockHand, disk |-> disk, expect |-> expect,
   status |-> "OK", allocFrame |-> NoFrame, victim |-> FALSE, frame |-> NoFrame,
   pageNo |-> -1, calls |-> <<>>, advances |-> 0]

\* One call of the paged file store, as the call log keeps it.
FileCall(call, file, pageNo, data, ok) ==
  [call |-> call, file |-> file, pageNo |-> pageNo, data |-> data, ok |-> ok]

\* BufMgr::numBufs, the pool size the constructor was given.
numBufs(s) == Cardinality(DOMAIN s.bufTable)

\* BufMgr::advanceClock()
advanceClock(s) ==
  [s EXCEPT !.clockHand = (s.clockHand + 1) % numBufs(s), !.advances = @ + 1]

\* A write-back that reports success without reaching the file.
WriteBackLost(s, i, wOK) ==
  LET cur == s.bufTable[i]
      s1 == [s EXCEPT !.calls = Append(@, FileCall("writePage", cur.file, cur.pageNo,
                                                   s.bufPool[i], wOK))]
  IN IF wOK THEN s1 ELSE [s1 EXCEPT !.status = "UNIXERR"]

\* A failed write that also drops the frame's mapping from the index.
WriteBackUnmaps(s, i, wOK) ==
  LET cur == s.bufTable[i]
      s1 == [s EXCEPT !.calls = Append(@, FileCall("writePage", cur.file, cur.pageNo,
                                                   s.bufPool[i], wOK))]
  IN IF wOK
     THEN [s1 EXCEPT !.disk[<<cur.file, cur.pageNo>>] = s.bufPool[i]]
     ELSE [s1 EXCEPT !.status = "UNIXERR",
                     !.hashTable = remove(s.hashTable, cur.file, cur.pageNo).h]

\* file->writePage(pageNo, &bufPool[i]) of frame i; wOK: the write succeeds.
WriteBack(s, i, wOK) ==
  LET cur == s.bufTable[i]
      s1 == [s EXCEPT !.calls = Append(@, FileCall("writePage", cur.file, cur.pageNo,
                                                   s.bufPool[i], wOK))]
  IN IF wOK
     THEN [s1 EXCEPT !.disk[<<cur.file, cur.pageNo>>] = s.bufPool[i]]
     ELSE [s1 EXCEPT !.status = "UNIXERR"]

\* A pin test that lets a frame with a single pin through.
IsPinnedOffByOne(d) == d.pinCnt > 1

\* if (curBuffer->pinCnt > 0)
IsPinned(d) == d.pinCnt > 0

\* A victim cleared with its index entry left behind.
EvictVictimNoRemove(w) ==
  [w EXCEPT !.bufTable[w.clockHand] = Clear(@),
            !.allocFrame = w.bufTable[w.clockHand].frameNo,
            !.victim = TRUE, !.status = "OK"]

\* The end of allocBuf: the victim's index entry is removed and its
\* descriptor cleared.
EvictVictim(w) ==
  LET cur == w.bufTable[w.clockHand]
      r == remove(w.hashTable, cur.file, cur.pageNo)
  IN IF r.status # "OK"
     THEN [w EXCEPT !.status = r.status]
     ELSE [w EXCEPT !.hashTable = r.h,
                    !.bufTable[w.clockHand] = Clear(@),
                    !.allocFrame = cur.frameNo, !.victim = TRUE, !.status = "OK"]

\* The history variable at the moment a page leaves the pool: a dirty page
\* must be read back as the pool held it.
Leaves(s, i) ==
  LET cur == s.bufTable[i]
  IN IF cur.dirty
     THEN [s EXCEPT !.expect[<<cur.file, cur.pageNo>>] = s.bufPool[i]]
     ELSE s

\* An exhaustion test that fires one pinned frame late.
ExceededLate(s, numPinnedPages) == numBufs(s) + 1 = numPinnedPages

\* if (numBufs == numPinnedPages)
Exceeded(s, numPinnedPages) == numBufs(s) = numPinnedPages

\* A sweep that gives no frame a second chance.
SecondChanceNever(d) == FALSE

\* else if (curBuffer->refbit)
SecondChance(d) == d.refbit

RECURSIVE allocBufLoop(_, _, _)
allocBufLoop(s0, numPinnedPages, wOK) ==
  IF Exceeded(s0, numPinnedPages)
  THEN [s0 EXCEPT !.status = "BUFFEREXCEEDED"]
  ELSE
    LET s == advanceClock(s0)
        cur == s.bufTable[s.clockHand]
    IN IF ~cur.valid
       THEN [s EXCEPT !.bufTable[s.clockHand] = Clear(cur),
                      !.allocFrame = cur.frameNo, !.status = "OK"]
       ELSE IF SecondChance(cur)
       THEN allocBufLoop([s EXCEPT !.bufTable[s.clockHand].refbit = FALSE],
                         numPinnedPages, wOK)
       ELSE IF IsPinned(cur)
       THEN allocBufLoop(s, numPinnedPages + 1, wOK)
       ELSE
         LET w == IF cur.dirty
                  THEN [WriteBack(s, s.clockHand, wOK)
                          EXCEPT !.bufTable[s.clockHand].dirty = TRUE]
                  ELSE s
         IN IF w.status # "OK" THEN w ELSE EvictVictim(Leaves(w, s.clockHand))

\* BufMgr::allocBuf(frame)
allocBuf(s, wOK) == allocBufLoop(s, 0, wOK)

\* A dispose that spares a pinned frame.
DisposeFrameIfUnpinned(s, l) ==
  IF l.status = "OK" /\ s.bufTable[l.frameNo].pinCnt = 0
  THEN [s EXCEPT !.bufTable[l.frameNo] = Clear(@)]
  ELSE s

\* if (status == OK) bufTable[frameNo].Clear();
DisposeFrame(s, l) ==
  IF l.status = "OK"
  THEN [s EXCEPT !.bufTable[l.frameNo] = Clear(@)]
  ELSE s

\* BufMgr::disposePage(file, pageNo); dOK: File::disposePage succeeds.
disposePage(s, file, pageNo, dOK) ==
  LET s1 == DisposeFrame(s, lookup(s.hashTable, file, pageNo))
      r == remove(s1.hashTable, file, pageNo)
  IN [s1 EXCEPT !.hashTable = r.h,
                !.calls = Append(@, FileCall("disposePage", file, pageNo, -1, dOK)),
                !.status = IF dOK THEN "OK" ELSE "UNIXERR"]

\* A hit that leaves the pin count as it was.
PinHitNoCount(d) == [d EXCEPT !.refbit = TRUE]

\* The hit path of readPage: refbit = true, pinCnt++.
PinHit(d) == [d EXCEPT !.refbit = TRUE, !.pinCnt = @ + 1]

\* A failed read that returns the error without disposing the page.
ReadFailedNoDispose(a1, file, pageNo) == [a1 EXCEPT !.status = "UNIXERR"]

\* readPage when File::readPage fails: disposePage(file, pageNo), whose result
\* is dropped, then the read error is returned.
ReadFailed(a1, file, pageNo) ==
  [disposePage(a1, file, pageNo, TRUE) EXCEPT !.status = "UNIXERR"]

\* BufMgr::readPage(file, pageNo, page); rOK: File::readPage succeeds.
readPage(s, file, pageNo, wOK, rOK) ==
  LET l == lookup(s.hashTable, file, pageNo)
  IN IF l.status = "HASHNOTFOUND"
     THEN
       LET a == allocBuf(s, wOK)
       IN IF a.status # "OK"
          THEN a
          ELSE
            LET frame == a.allocFrame
                a1 == [a EXCEPT !.calls = Append(@, FileCall("readPage", file, pageNo,
                                                             a.disk[<<file, pageNo>>], rOK))]
            IN IF ~rOK
               THEN ReadFailed(a1, file, pageNo)
               ELSE
                 LET a2 == [a1 EXCEPT !.bufPool[frame] = a.disk[<<file, pageNo>>]]
                     i == insert(a2.hashTable, file, pageNo, frame)
                 IN IF i.status # "OK"
                    THEN [a2 EXCEPT !.status = i.status]
                    ELSE [a2 EXCEPT !.hashTable = i.h,
                                    !.bufTable[frame] = Set(@, file, pageNo),
                                    !.frame = frame, !.status = "OK"]
     ELSE [s EXCEPT !.bufTable[l.frameNo] = PinHit(@),
                    !.frame = l.frameNo, !.status = "OK"]

\* An unpin that stores the caller's flag instead of only setting it.
UnpinStoresFlag(d, dirty) == [d EXCEPT !.dirty = dirty, !.pinCnt = @ - 1]

\* An unpin that also takes the reference bit away.
UnpinClearsRefbit(d, dirty) ==
  [d EXCEPT !.dirty = IF dirty THEN TRUE ELSE @, !.pinCnt = @ - 1, !.refbit = FALSE]

\* if (dirty) curBuffer->dirty = true; curBuffer->pinCnt--;
Unpin(d, dirty) ==
  [d EXCEPT !.dirty = IF dirty THEN TRUE ELSE @, !.pinCnt = @ - 1]

\* A pin test that never reports an unpinned page.
NotPinnedNever(d) == FALSE

\* if (!curBuffer->pinCnt)
NotPinned(d) == d.pinCnt = 0

\* BufMgr::unPinPage(file, pageNo, dirty)
unPinPage(s, file, pageNo, dirty) ==
  LET l == lookup(s.hashTable, file, pageNo)
  IN IF l.status # "OK"
     THEN [s EXCEPT !.status = l.status]
     ELSE IF NotPinned(s.bufTable[l.frameNo])
     THEN [s EXCEPT !.status = "PAGENOTPINNED"]
     ELSE [s EXCEPT !.bufTable[l.frameNo] = Unpin(@, dirty),
                    !.frame = l.frameNo, !.status = "OK"]

\* BufMgr::allocPage(file, pageNo, page); pageNum is the page number
\* File::allocatePage returns (-1: it fails).
allocPage(s, file, pageNum, wOK) ==
  LET s1 == [s EXCEPT !.calls = Append(@, FileCall("allocatePage", file, pageNum, -1,
                                                   pageNum # -1))]
  IN IF pageNum = -1
     THEN [s1 EXCEPT !.status = "UNIXERR"]
     ELSE
       LET a == allocBuf(s1, wOK)
       IN IF a.status # "OK"
          THEN a
          ELSE
            LET frame == a.allocFrame
                i == insert(a.hashTable, file, pageNum, frame)
            IN IF i.status # "OK"
               THEN [a EXCEPT !.status = i.status]
               ELSE [a EXCEPT !.hashTable = i.h,
                              !.bufTable[frame] = Set(@, file, pageNum),
                              !.pageNo = pageNum, !.frame = frame, !.status = "OK"]

\* A flushed frame that stays valid and indexed.
InvalidateNot(s, i, file) == s

\* The descriptor is marked invalid but the mapping stays in the index.
InvalidateKeepsIndex(s, i, file) ==
  [s EXCEPT !.bufTable[i] = [@ EXCEPT !.file = NULL, !.pageNo = -1, !.valid = FALSE]]

\* An invalidation that leaves the descriptor's file pointer in place.
InvalidateKeepsFile(s, i, file) ==
  [s EXCEPT !.hashTable = remove(s.hashTable, file, s.bufTable[i].pageNo).h,
            !.bufTable[i] = [@ EXCEPT !.pageNo = -1, !.valid = FALSE]]

\* The end of flushFile's loop body: the mapping is removed and the
\* descriptor marked invalid.
Invalidate(s, i, file) ==
  [s EXCEPT !.hashTable = remove(s.hashTable, file, s.bufTable[i].pageNo).h,
            !.bufTable[i] = [@ EXCEPT !.file = NULL, !.pageNo = -1, !.valid = FALSE]]

\* One frame of flushFile's loop: a valid, unpinned frame of the file; wfail
\* is the page number whose File::writePage fails (-1: none).
FlushFrame(s, i, file, wfail) ==
  LET tmpbuf == s.bufTable[i]
      w == IF tmpbuf.dirty THEN WriteBack(s, i, tmpbuf.pageNo # wfail) ELSE s
  IN IF w.status # "OK"
     THEN w
     ELSE Invalidate([Leaves(w, i) EXCEPT !.bufTable[i].dirty = FALSE], i, file)

RECURSIVE flushFileLoop(_, _, _, _)
flushFileLoop(s, i, file, wfail) ==
  IF i = numBufs(s)
  THEN [s EXCEPT !.status = "OK"]
  ELSE
    LET tmpbuf == s.bufTable[i]
    IN IF tmpbuf.valid /\ tmpbuf.file = file
       THEN IF tmpbuf.pinCnt > 0
            THEN [s EXCEPT !.status = "PAGEPINNED"]
            ELSE LET f == FlushFrame(s, i, file, wfail)
                 IN IF f.status # "OK" THEN f ELSE flushFileLoop(f, i + 1, file, wfail)
       ELSE IF ~tmpbuf.valid /\ tmpbuf.file = file
       THEN [s EXCEPT !.status = "BADBUFFER"]
       ELSE flushFileLoop(s, i + 1, file, wfail)

\* BufMgr::flushFile(file)
flushFile(s, file, wfail) == flushFileLoop(s, 0, file, wfail)

\* ---------------------------------------------------------------- Page
\* The record layer's view of a page (page.C is not part of the sources; it
\* is modelled from its interface): a data page is a slot directory, slot n
\* holding a record or EmptySlot, with a next-page link and its own page
\* number; the header page (FileHdrPage) holds firstPage, lastPage, pageCnt
\* and recCnt.
\* Records a data page has room for (PAGESIZE over the record length).
PageCap == 2
\* Records inserted into the heap file.
MaxRecs == 5
\* Pages the paged file store can hold; File::allocatePage fails beyond.
MaxFilePages == 5
\* Records inserted and handles opened, one after the other, where every
\* operation of a handle is applied.
MaxRecsScan == 3
MaxOpens == 3
\* Records deleted from the heap file.
MaxDeleted == 1
\* The pool size of the heap-file configuration (the header page and the
\* cursor page stay pinned, insertRecord pins a third page).
NumBufsHF == 3

\* The width of int and of the mantissa of float, in bits, scaled down
\* (int is wider than the mantissa, as 32 is wider than 24).
IntBits == 4
MantBits == 2
MinInt == -(2 ^ (IntBits - 1))
MaxInt == 2 ^ (IntBits - 1) - 1
Ints == MinInt .. MaxInt
\* A record is the int it holds at offset 0; an unused slot holds no int.
EmptySlot == MinInt - 1
TheRec == 1
TheFile == 1
FramesHF == 0 .. (NumBufsHF - 1)
KeysHF == {TheFile} \X (0 .. (MaxFilePages - 1))
NULLRID == [pageNo |-> -1, slotNo |-> -1]
RawPage ==
  [slots |-> <<>>, nextPage |-> 0, curPage |-> 0,
   firstPage |-> 0, lastPage |-> 0, pageCnt |-> 0, recCnt |-> 0]

\* Page::init(pageNo)
init(p, pageNo) == [p EXCEPT !.slots = <<>>, !.nextPage = -1, !.curPage = pageNo]
\* Page::setNextPage(pageNo)
setNextPage(p, pageNo) == [p EXCEPT !.nextPage = pageNo]
\* The slots of p after slot number slotNo that hold a record.
SlotsAfter(p, slotNo) ==
  {n \in 0 .. (Len(p.slots) - 1) : n > slotNo /\ p.slots[n + 1] # EmptySlot}
Min(S) == CHOOSE n \in S : \A m \in S : n <= m
\* Page::firstRecord(firstRid)
firstRecord(p) ==
  IF SlotsAfter(p, -1) = {}
  THEN [status |-> "NORECORDS", rid |-> NULLRID]
  ELSE [status |-> "OK", rid |-> [pageNo |-> p.curPage, slotNo |-> Min(SlotsAfter(p, -1))]]
\* Page::nextRecord(curRid, nextRid)
nextRecord(p, curRid) ==
  IF SlotsAfter(p, curRid.slotNo) = {}
  THEN [status |-> "ENDOFPAGE", rid |-> NULLRID]
  ELSE [status |-> "OK",
        rid |-> [pageNo |-> p.curPage, slotNo |-> Min(SlotsAfter(p, curRid.slotNo))]]
\* Page::getRecord(rid, rec)
PageGetRecord(p, rid) ==
  IF rid.slotNo >= 0 /\ rid.slotNo < Len(p.slots) /\ p.slots[rid.slotNo + 1] # EmptySlot
  THEN "OK"
  ELSE "INVALIDSLOTNO"
\* Page::insertRecord(rec, rid): the first unused slot, else a new one.
PageInsertRecord(p, rec) ==
  LET used == {n \in 1 .. Len(p.slots) : p.slots[n] # EmptySlot}
      free == {n \in 1 .. Len(p.slots) : p.slots[n] = EmptySlot}
  IN IF Cardinality(used) >= PageCap
     THEN [status |-> "NOSPACE", p |-> p, rid |-> NULLRID]
     ELSE IF free # {}
     THEN [status |-> "OK", p |-> [p EXCEPT !.slots[Min(free)] = rec],
           rid |-> [pageNo |-> p.curPage, slotNo |-> Min(free) - 1]]
     ELSE [status |-> "OK", p |-> [p EXCEPT !.slots = Append(@, rec)],
           rid |-> [pageNo |-> p.curPage, slotNo |-> Len(p.slots)]]

\* Page::deleteRecord(rid): the slot is freed; RIDs of the other records stay.
PageDeleteRecord(p, rid) ==
  IF PageGetRecord(p, rid) = "OK"
  THEN [status |-> "OK", p |-> [p EXCEPT !.slots[rid.slotNo + 1] = EmptySlot]]
  ELSE [status |-> "INVALIDSLOTNO", p |-> p]

\* ---------------------------------------------------------------- HeapFile
\* A HeapFile object: headerPage and curPage point into the pool and are
\* kept as frame numbers (NoFrame: the null pointer). markedPageNo and
\* markedRec are the HeapFileScan's snapshot; they are read only after a
\* markScan has written them.
NoHeapFile ==
  [kind |-> "none", headerPage |-> NoFrame, headerPageNo |-> 0, hdrDirtyFlag |-> FALSE,
   curPage |-> NoFrame, curPageNo |-> 0, curDirtyFlag |-> FALSE, curRec |-> NULLRID,
   markedPageNo |-> 0, markedRec |-> NULLRID]

\* The heap-file layer's state as one record: the buffer manager (bm), the
\* object (f), the file's page count, and the outcome of the call in
\* progress (status, outRid).
HF ==
  [bm |-> BM, f |-> heapFile, allocated |-> allocated,
   status |-> "OK", outRid |-> NULLRID]

\* A buffer-manager call made by the heap-file layer: its status becomes the
\* local status.
Call(h, bm) == [h EXCEPT !.bm = bm, !.status = bm.status]
\* File::allocatePage: the next page number, or -1 when the store is full.
allocatePage(h) == IF h.allocated < MaxFilePages THEN h.allocated ELSE -1
\* bufMgr->allocPage(filePtr, newPageNo, newPage)
CallAllocPage(h) ==
  [Call(h, allocPage(h.bm, TheFile, allocatePage(h), TRUE))
     EXCEPT !.allocated = IF allocatePage(h) # -1 THEN @ + 1 ELSE @]
\* *curPage and *headerPage: the pages behind the object's pointers.
CurPage(h) == h.bm.bufPool[h.f.curPage]
HeaderPage(h) == h.bm.bufPool[h.f.headerPage]
\* An unpin of the cursor page that never passes the dirty flag on.
UnpinCurClean(h, dirty) == Call(h, unPinPage(h.bm, TheFile, h.f.curPageNo, FALSE))
\* bufMgr->unPinPage(filePtr, curPageNo, dirty)
UnpinCur(h, dirty) == Call(h, unPinPage(h.bm, TheFile, h.f.curPageNo, dirty))
\* The out-parameter of readPage: curPage is assigned when the call succeeds.
PinnedAsCur(h, r) ==
  [h EXCEPT !.bm = r, !.status = r.status,
            !.f.curPage = IF r.status = "OK" THEN r.frame ELSE @]
\* bufMgr->readPage(filePtr, curPageNo, curPage)
ReadCur(h) == PinnedAsCur(h, readPage(h.bm, TheFile, h.f.curPageNo, TRUE, TRUE))

\* createHeapFile that leaves out the flushFile call.
createFinishNoFlush(a, hdrPage, hdrPageNo, newPage, newPageNo) ==
  [a EXCEPT
     !.bm = unPinPage(
              unPinPage(
                [a.bm EXCEPT
                   !.bufPool[newPage] = setNextPage(init(@, newPageNo), -1),
                   !.bufPool[hdrPage] =
                      [@ EXCEPT !.firstPage = newPageNo, !.lastPage = newPageNo,
                                !.pageCnt = 1, !.recCnt = 0]],
                TheFile, hdrPageNo, TRUE),
              TheFile, newPageNo, TRUE),
     !.status = "OK"]
\* createHeapFile, after both allocPage calls: the data page is initialised,
\* the header filled in, both are unpinned dirty and the file is flushed.
createFinish(a, hdrPage, hdrPageNo, newPage, newPageNo) ==
  [a EXCEPT
     !.bm = flushFile(
              unPinPage(
                unPinPage(
                  [a.bm EXCEPT
                     !.bufPool[newPage] = setNextPage(init(@, newPageNo), -1),
                     !.bufPool[hdrPage] =
                        [@ EXCEPT !.firstPage = newPageNo, !.lastPage = newPageNo,
                                  !.pageCnt = 1, !.recCnt = 0]],
                  TheFile, hdrPageNo, TRUE),
                TheFile, newPageNo, TRUE),
              TheFile, -1),
     !.status = "OK"]
\* createHeapFile, after the data page's allocPage.
createData(a, hdrPage, hdrPageNo) ==
  IF a.status # "OK" THEN a
  ELSE createFinish(a, hdrPage, hdrPageNo, a.bm.frame, a.bm.pageNo)
\* createHeapFile, after the header page's allocPage.
createHeader(a) ==
  IF a.status # "OK" THEN a
  ELSE createData(CallAllocPage(a), a.bm.frame, a.bm.pageNo)
\* createHeapFile(fileName)
createHeapFile(h) ==
  IF h.allocated > 0
  THEN [h EXCEPT !.status = "FILEEXISTS"]
  ELSE createHeader(CallAllocPage(h))

\* The constructor, after the first data page's readPage.
openFirst(r) ==
  IF r.status # "OK" THEN r
  ELSE [r EXCEPT !.f.curPage = r.bm.frame,
                 !.f.curPageNo = HeaderPage(r).firstPage,
                 !.f.curDirtyFlag = FALSE, !.f.curRec = NULLRID, !.status = "OK"]
\* The constructor, with the header page pinned.
openData(o) ==
  openFirst(Call(o, readPage(o.bm, TheFile, HeaderPage(o).firstPage, TRUE, TRUE)))
\* The constructor, after the header page's readPage.
openHeader(r, kind, pageNo) ==
  IF r.status # "OK" THEN r
  ELSE openData([r EXCEPT !.f.kind = kind, !.f.headerPage = r.bm.frame,
                          !.f.headerPageNo = pageNo, !.f.hdrDirtyFlag = FALSE])
\* HeapFile::HeapFile(fileName, returnStatus), for an object of the given
\* kind ("scan": HeapFileScan, "insert": InsertFileScan); the header is the
\* file's first page, page 0.
HeapFile(h, kind) ==
  IF h.allocated = 0
  THEN [h EXCEPT !.status = "UNIXERR"]
  ELSE openHeader(Call(h, readPage(h.bm, TheFile, 0, TRUE, TRUE)), kind, 0)

\* HeapFile::~HeapFile(), with the data page released.
destroyHeader(h) ==
  [h EXCEPT !.bm = unPinPage(h.bm, TheFile, h.f.headerPageNo, h.f.hdrDirtyFlag),
            !.f = NoHeapFile, !.status = "OK"]
\* HeapFile::~HeapFile()
DestroyHeapFile(h) ==
  IF h.f.curPage # NoFrame
  THEN destroyHeader([UnpinCur(h, h.f.curDirtyFlag) EXCEPT
                        !.f.curPage = NoFrame, !.f.curPageNo = 0,
                        !.f.curDirtyFlag = FALSE])
  ELSE destroyHeader(h)

\* HeapFileScan::endScan()
endScan(h) ==
  IF h.f.curPage # NoFrame
  THEN [UnpinCur(h, h.f.curDirtyFlag) EXCEPT
          !.f.curPage = NoFrame, !.f.curPageNo = 0, !.f.curDirtyFlag = FALSE]
  ELSE [h EXCEPT !.status = "OK"]

\* HeapFileScan::~HeapFileScan(), followed by the base class's destructor.
DestroyHeapFileScan(h) == DestroyHeapFile(endScan(h))

\* startScan(0, sizeof(int), INTEGER, &value, op) stores the predicate; a
\* null filter is NoFilter. wraps is what the build makes of an int
\* subtraction that overflows: the difference wrapped to the width of int,
\* or the difference kept exact in a wider register.
Ops == {"LT", "LTE", "EQ", "GTE", "GT", "NE"}
NoFilter == [op |-> "NONE", value |-> 0, wraps |-> FALSE]
Filters == [op : Ops, value : Ints, wraps : BOOLEAN]
\* An int that left the range of IntBits bits, wrapped around.
Wrap(n) == ((n - MinInt) % (2 ^ IntBits)) + MinInt
\* iattr - ifltr in int arithmetic.
IntDiff(iattr, ifltr) ==
  IF iattr - ifltr \in Ints \/ ~filter.wraps
  THEN iattr - ifltr
  ELSE Wrap(iattr - ifltr)
\* The number of bits of a magnitude.
RECURSIVE BitLen(_)
BitLen(m) == IF m = 0 THEN 0 ELSE 1 + BitLen(m \div 2)
\* A magnitude rounded to MantBits significant bits, ties to even.
RoundTo(m, unit) ==
  IF 2 * (m % unit) > unit \/ (2 * (m % unit) = unit /\ (m \div unit) % 2 = 1)
  THEN ((m \div unit) + 1) * unit
  ELSE (m \div unit) * unit
RoundMag(m) ==
  IF BitLen(m) <= MantBits THEN m ELSE RoundTo(m, 2 ^ (BitLen(m) - MantBits))
\* float diff = <int>: the conversion of an int to float.
ToFloat(n) == IF n < 0 THEN -RoundMag(-n) ELSE RoundMag(n)
\* matchRec: the switch (op) on diff against 0.0.
OpHolds(op, diff) ==
  CASE op = "LT" -> diff < 0
    [] op = "LTE" -> diff <= 0
    [] op = "EQ" -> diff = 0
    [] op = "GTE" -> diff >= 0
    [] op = "GT" -> diff > 0
    [] op = "NE" -> diff # 0
    [] OTHER -> FALSE
\* HeapFileScan::matchRec(rec), for a record that holds the whole attribute.
matchRec(rec) ==
  IF filter = NoFilter THEN TRUE
  ELSE OpHolds(filter.op, ToFloat(IntDiff(rec, filter.value)))

RECURSIVE scanLoop(_)
\* scanNext: the predicate test on the record at curRec.
scanMatched(h, g) ==
  IF g # "OK" THEN [h EXCEPT !.status = g]
  ELSE IF matchRec(CurPage(h).slots[h.f.curRec.slotNo + 1])
  THEN [h EXCEPT !.outRid = h.f.curRec, !.status = "OK"]
  ELSE scanLoop(h)
\* scanNext: curPage->getRecord(curRec, rec)
scanMatch(h) == scanMatched(h, PageGetRecord(CurPage(h), h.f.curRec))
\* scanNext: curPage->firstRecord(curRec) on the page just read; an empty
\* page sends the loop round again.
scanNewPage(r, fr) ==
  IF fr.status # "OK" THEN scanLoop(r)
  ELSE scanMatch([r EXCEPT !.f.curRec = fr.rid])
\* scanNext: after the next page's readPage.
scanRead(r) ==
  IF r.status # "OK" THEN r ELSE scanNewPage(r, firstRecord(CurPage(r)))
\* scanNext: after the current page's unPinPage.
scanUnpinned(u, nextPageNo) ==
  IF u.status # "OK" THEN u
  ELSE scanRead(ReadCur([u EXCEPT !.f.curPageNo = nextPageNo,
                                  !.f.curDirtyFlag = FALSE]))
\* scanNext never returns: the while (true) loop reads the same page again
\* and again when a page without records names itself as its next page.
Diverges == "DIVERGES"
\* An end of file that gives up the pin on the last page.
scanNextPageUnpinsAtEnd(h, nextPageNo) ==
  IF nextPageNo = -1
  THEN [UnpinCur(h, h.f.curDirtyFlag) EXCEPT !.status = "FILEEOF"]
  ELSE IF nextPageNo = h.f.curPageNo /\ firstRecord(CurPage(h)).status # "OK"
  THEN [h EXCEPT !.status = Diverges]
  ELSE scanUnpinned(UnpinCur(h, h.f.curDirtyFlag), nextPageNo)
\* scanNext: no next record on the page; curPage->getNextPage(nextPageNo).
scanNextPage(h, nextPageNo) ==
  IF nextPageNo = -1
  THEN [h EXCEPT !.status = "FILEEOF"]
  ELSE IF nextPageNo = h.f.curPageNo /\ firstRecord(CurPage(h)).status # "OK"
  THEN [h EXCEPT !.status = Diverges]
  ELSE scanUnpinned(UnpinCur(h, h.f.curDirtyFlag), nextPageNo)
\* scanNext: the outcome of curPage->nextRecord(curRec, nextRid).
scanStep(h, n) ==
  IF n.status = "OK"
  THEN scanMatch([h EXCEPT !.f.curRec = n.rid])
  ELSE scanNextPage(h, CurPage(h).nextPage)
\* scanNext: the while (true) loop.
scanLoop(h) == scanStep(h, nextRecord(CurPage(h), h.f.curRec))
\* scanNext with curPage null: curPage->firstRecord(tmpRid); curRec = tmpRid.
scanFirstRecord(r, fr) ==
  IF fr.status # "OK" THEN [r EXCEPT !.status = fr.status]
  ELSE scanLoop([r EXCEPT !.f.curRec = fr.rid])
\* scanNext with curPage null: after the first page's readPage.
scanFirst(r) ==
  IF r.status # "OK" THEN r ELSE scanFirstRecord(r, firstRecord(CurPage(r)))
\* HeapFileScan::scanNext(outRid)
scanNext(h) ==
  IF h.f.curPage = NoFrame
  THEN scanFirst(ReadCur([h EXCEPT !.f.curPageNo = HeaderPage(h).firstPage,
                                   !.f.curDirtyFlag = FALSE]))
  ELSE scanLoop(h)

\* HeapFile::getRecord: after the readPage of rid's page.
getRecordRead(r, rid) ==
  IF r.status # "OK" THEN r
  ELSE [r EXCEPT !.status = PageGetRecord(CurPage(r), rid)]
\* HeapFile::getRecord: after the unPinPage of curPageNo.
getRecordUnpinned(u, rid) ==
  IF u.status # "OK" THEN u
  ELSE getRecordRead(ReadCur([u EXCEPT !.f.curPageNo = rid.pageNo, !.f.curRec = rid,
                                        !.f.curDirtyFlag = FALSE]), rid)
\* HeapFile::getRecord(rid, rec)
getRecord(h, rid) ==
  IF h.f.curPage # NoFrame /\ h.f.curPageNo = rid.pageNo
  THEN [h EXCEPT !.f.curRec = rid, !.status = PageGetRecord(CurPage(h), rid)]
  ELSE getRecordUnpinned(UnpinCur(h, h.f.curDirtyFlag), rid)

\* HeapFileScan::markScan()
markScan(h) ==
  [h EXCEPT !.f.markedPageNo = h.f.curPageNo, !.f.markedRec = h.f.curRec,
            !.status = "OK"]

\* resetScan: after the marked page's readPage.
resetRead(r) ==
  IF r.status # "OK" THEN r
  ELSE [r EXCEPT !.f.curDirtyFlag = FALSE, !.status = "OK"]
\* resetScan: curPageNo and curRec are restored and the marked page is read.
resetRestore(u) ==
  IF u.status # "OK" THEN u
  ELSE resetRead(ReadCur([u EXCEPT !.f.curPageNo = u.f.markedPageNo,
                                   !.f.curRec = u.f.markedRec]))
\* resetScan: the current page, if there is one, is unpinned.
resetUnpin(h) ==
  IF h.f.curPage # NoFrame
  THEN UnpinCur(h, h.f.curDirtyFlag)
  ELSE [h EXCEPT !.status = "OK"]
\* HeapFileScan::resetScan()
resetScan(h) ==
  IF h.f.markedPageNo # h.f.curPageNo
  THEN resetRestore(resetUnpin(h))
  ELSE [h EXCEPT !.f.curRec = h.f.markedRec, !.status = "OK"]

\* deleteRecord: the outcome d of curPage->deleteRecord(curRec).
deleteDone(h, d) ==
  [h EXCEPT !.bm.bufPool[h.f.curPage] = d.p,
            !.bm.bufPool[h.f.headerPage].recCnt = @ - 1,
            !.f.curDirtyFlag = TRUE, !.f.hdrDirtyFlag = TRUE,
            !.status = d.status]
\* HeapFileScan::deleteRecord(), called with a cursor page (a null curPage
\* is dereferenced and ends the program).
deleteRecord(h) == deleteDone(h, PageDeleteRecord(CurPage(h), h.f.curRec))

\* HeapFileScan::markDirty()
markDirty(h) == [h EXCEPT !.f.curDirtyFlag = TRUE, !.status = "OK"]

\* InsertFileScan::~InsertFileScan(), followed by the base class's destructor.
DestroyInsertFileScan(h) ==
  IF h.f.curPage # NoFrame
  THEN DestroyHeapFile([UnpinCur(h, TRUE) EXCEPT
                          !.f.curPage = NoFrame, !.f.curPageNo = 0])
  ELSE DestroyHeapFile(h)

\* insertRecord, NOSPACE: the record goes into the new page, which becomes
\* the end of the list and is unpinned once.
insertNew(r, i) ==
  IF i.status # "OK" THEN [r EXCEPT !.status = i.status]
  ELSE [r EXCEPT
          !.bm = unPinPage(
                   [r.bm EXCEPT !.bufPool[r.f.curPage] = setNextPage(i.p, -1),
                                !.bufPool[r.f.headerPage].recCnt = @ + 1],
                   TheFile, r.f.curPageNo, TRUE),
          !.f.curRec = i.rid, !.f.curDirtyFlag = TRUE,
          !.outRid = i.rid, !.status = "OK"]
\* insertRecord, NOSPACE: after the new page's readPage.
insertNewRead(r, rec) ==
  IF r.status # "OK" THEN r ELSE insertNew(r, PageInsertRecord(CurPage(r), rec))
\* insertRecord, NOSPACE: the old page is unpinned dirty (the test that
\* follows reads status, still OK, not unpinstatus) and the new page, now
\* headerPage->lastPage, is read.
insertLinked(a, rec) ==
  insertNewRead(
    ReadCur([a EXCEPT !.bm = unPinPage(a.bm, TheFile, a.f.curPageNo, a.f.curDirtyFlag),
                      !.f.curPageNo = HeaderPage(a).lastPage]),
    rec)
\* insertRecord, NOSPACE: the new page is initialised, made the header's
\* lastPage and linked behind curPage.
LinkNewPage(a, newPage, newPageNo) ==
  [a EXCEPT !.bm.bufPool[newPage] = init(@, newPageNo),
            !.bm.bufPool[a.f.headerPage] =
               [@ EXCEPT !.lastPage = newPageNo, !.pageCnt = @ + 1],
            !.bm.bufPool[a.f.curPage] = setNextPage(@, newPageNo),
            !.f.curDirtyFlag = TRUE]
\* insertRecord, NOSPACE: after allocPage.
insertNoSpace(a, rec) ==
  IF a.status # "OK" THEN a
  ELSE insertLinked(LinkNewPage(a, a.bm.frame, a.bm.pageNo), rec)
\* insertRecord: the outcome of curPage->insertRecord(rec, rid).
insertDone(h, i, rec) ==
  IF i.status = "OK"
  THEN [h EXCEPT !.bm.bufPool[h.f.curPage] = i.p,
                 !.bm.bufPool[h.f.headerPage].recCnt = @ + 1,
                 !.f.curRec = i.rid, !.f.curDirtyFlag = TRUE,
                 !.outRid = i.rid, !.status = "OK"]
  ELSE IF i.status = "NOSPACE"
  THEN insertNoSpace(CallAllocPage(h), rec)
  ELSE [h EXCEPT !.status = i.status]
\* insertRecord: status = curPage->insertRecord(rec, rid)
insertIntoCur(h, rec) == insertDone(h, PageInsertRecord(CurPage(h), rec), rec)
\* insertRecord with curPage null: curPage->firstRecord(curRec)
insertPositioned(r, fr, rec) ==
  IF fr.status # "OK" THEN [r EXCEPT !.status = fr.status]
  ELSE insertIntoCur([r EXCEPT !.f.curRec = fr.rid], rec)
\* insertRecord with curPage null: after the last page's readPage.
insertRead(r, rec) ==
  IF r.status # "OK" THEN r
  ELSE insertPositioned(r, firstRecord(CurPage(r)), rec)
\* insertRecord with curPage null: after unPinPage.
insertUnpinned(u, rec) ==
  IF u.status # "OK" THEN u
  ELSE insertRead([ReadCur([u EXCEPT !.f.curPageNo = HeaderPage(u).lastPage])
                     EXCEPT !.f.curDirtyFlag = FALSE], rec)
\* InsertFileScan::insertRecord(rec, outRid), for a record that passes the
\* length test.
insertRecord(h, rec) ==
  IF h.f.curPage # NoFrame
  THEN insertIntoCur(h, rec)
  ELSE insertUnpinned(UnpinCur(h, h.f.curDirtyFlag), rec)

\* ---------------------------------------------------------------- actions
\* The state after a call that ended in record s.
Return(s) ==
  /\ bufTable' = s.bufTable
  /\ bufPool' = s.bufPool
  /\ hashTable' = s.hashTable
  /\ clockHand' = s.clockHand
  /\ disk' = s.disk
  /\ expect' = s.expect

\* No scanNext result recorded.
NoResult == [status |-> "", rid |-> NULLRID]
\* The history of the heap file: the RIDs insertRecord returned, the RIDs
\* scanNext returned since the scan began, the status of the last scanNext
\* ("" before the first), whether the scan began after an endScan, whether
\* a call of a handle returned an error (failed), whether a record
\* was deleted (how many), whether getRecord or resetScan moved the cursor since
\* the scan began, whether the scan object has a mark, and where a
\* markScan, scanNext..., resetScan, scanNext sequence stands (phase) with
\* the results of its first and its final scanNext; and how many handles
\* were opened.
NoHist ==
  [inserted |-> <<>>, scanned |-> <<>>, last |-> "", restarted |-> FALSE,
   failed |-> FALSE, deleted |-> 0, moved |-> FALSE, marked |-> FALSE,
   phase |-> "none", first |-> NoResult, again |-> NoResult, opens |-> 0,
   eof |-> "no", flushes |-> 0]

\* BufMgr::BufMgr(bufs)
Init ==
  /\ bufTable = [i \in Frames |->
                   [frameNo |-> i, valid |-> FALSE, file |-> NULL, pageNo |-> 0,
                    pinCnt |-> 0, dirty |-> FALSE, refbit |-> FALSE]]
  /\ bufPool = [i \in Frames |-> 0]
  /\ hashTable = [k \in Keys |-> NoFrame]
  /\ clockHand = NumBufs - 1
  /\ disk = [k \in Keys |-> 0]
  /\ expect = [k \in Keys |-> 0]
  /\ heapFile = NoHeapFile
  /\ allocated = 0
  /\ hist = NoHist
  /\ filter = NoFilter

\* The outcomes of the File calls of one readPage: all succeed, the
\* write-back fails, the read fails.
ReadIO == {<<TRUE, TRUE>>, <<FALSE, TRUE>>, <<TRUE, FALSE>>}
\* The outcomes of File::allocatePage and the write-back of one allocPage.
AllocIO == ((PageNos \cup {-1}) \X {TRUE}) \cup (PageNos \X {FALSE})
WFail == PageNos \cup {-1}

\* A hit may pin only up to the cap.
CanPin(file, pageNo) ==
  LET l == lookup(hashTable, file, pageNo)
  IN l.status = "OK" => bufTable[l.frameNo].pinCnt < MaxPin

ReadPage ==
  \E file \in Files, pageNo \in PageNos, io \in ReadIO :
    /\ CanPin(file, pageNo)
    /\ Return(readPage(BM, file, pageNo, io[1], io[2]))
    /\ UNCHANGED hfvars

AllocPage ==
  \E file \in Files, io \in AllocIO :
    Return(allocPage(BM, file, io[1], io[2])) /\ UNCHANGED hfvars

UnPinPage ==
  \E file \in Files, pageNo \in PageNos, dirty \in BOOLEAN :
    Return(unPinPage(BM, file, pageNo, dirty)) /\ UNCHANGED hfvars

DisposePage ==
  \E file \in Files, pageNo \in PageNos, dOK \in BOOLEAN :
    Return(disposePage(BM, file, pageNo, dOK)) /\ UNCHANGED hfvars

FlushFile ==
  \E file \in Files, wfail \in WFail :
    Return(flushFile(BM, file, wfail)) /\ UNCHANGED hfvars

\* A caller that holds a pin writes into the page through the pointer that
\* readPage or allocPage returned.
Modify ==
  \E i \in Frames, v \in Vals :
    /\ bufTable[i].valid /\ bufTable[i].pinCnt > 0
    /\ bufPool[i] # v
    /\ bufPool' = [bufPool EXCEPT ![i] = v]
    /\ UNCHANGED <<bufTable, hashTable, clockHand, disk, expect>>
    /\ UNCHANGED hfvars

Next ==
  \/ ReadPage
  \/ AllocPage
  \/ UnPinPage
  \/ DisposePage
  \/ FlushFile
  \/ Modify

Spec == Init /\ [][Next]_vars

\* ---------------------------------------------------------------- heap file
\* The state after a heap-file call that ended in record h.
ReturnHF(h) ==
  /\ Return(h.bm)
  /\ heapFile' = h.f
  /\ allocated' = h.allocated
  /\ UNCHANGED filter

\* BufMgr::BufMgr(NumBufsHF), no heap file created yet.
InitHF ==
  /\ bufTable = [i \in FramesHF |->
                   [frameNo |-> i, valid |-> FALSE, file |-> NULL, pageNo |-> 0,
                    pinCnt |-> 0, dirty |-> FALSE, refbit |-> FALSE]]
  /\ bufPool = [i \in FramesHF |-> RawPage]
  /\ hashTable = [k \in KeysHF |-> NoFrame]
  /\ clockHand = NumBufsHF - 1
  /\ disk = [k \in KeysHF |-> RawPage]
  /\ expect = [k \in KeysHF |-> RawPage]
  /\ heapFile = NoHeapFile
  /\ allocated = 0
  /\ hist = NoHist
  /\ filter = NoFilter

\* A call of the handle went as its caller expects.
Went(h) == h.status \in {"OK", "FILEEOF"}
\* The history of a handle just opened or just closed.
Fresh(hs) ==
  [hs EXCEPT !.scanned = <<>>, !.last = "", !.restarted = FALSE,
             !.moved = FALSE, !.marked = FALSE, !.phase = "none",
             !.first = NoResult, !.again = NoResult, !.eof = "no"]
\* The history after a call that ended in record h and is no step of a
\* markScan, scanNext..., resetScan, scanNext sequence.
Other(hs, h) == [hs EXCEPT !.failed = @ \/ ~Went(h), !.phase = "none"]

\* The state and the history after an insertRecord that ended in record h.
Inserted(h) ==
  /\ ReturnHF(h)
  /\ hist' = IF h.status = "OK"
             THEN [Other(hist, h) EXCEPT !.inserted = Append(@, h.outRid)]
             ELSE Other(hist, h)

\* The phase after a scanNext: the first scanNext after the mark, a later
\* one, or the one that follows resetScan.
PhaseScanned ==
  CASE hist.phase = "marked" -> "scanning"
    [] hist.phase = "scanning" -> "scanning"
    [] hist.phase = "reset" -> "checked"
    [] OTHER -> "none"
\* The state and the history after a scanNext that ended in record h.
Scanned(h) ==
  /\ ReturnHF(h)
  /\ hist' = [hist EXCEPT
                !.scanned = IF hist.moved \/ hist.deleted > 0 THEN <<>>
                            ELSE IF h.status = "OK" THEN Append(@, h.outRid) ELSE @,
                !.last = h.status,
                !.eof = IF h.status = "FILEEOF" THEN "eof" ELSE "no",
                !.failed = @ \/ ~Went(h),
                !.phase = PhaseScanned,
                !.first = IF hist.phase = "marked"
                          THEN [status |-> h.status, rid |-> h.outRid] ELSE @,
                !.again = IF hist.phase = "reset"
                          THEN [status |-> h.status, rid |-> h.outRid] ELSE NoResult]

CreateHeapFile ==
  /\ heapFile.kind = "none"
  /\ ReturnHF(createHeapFile(HF))
  /\ UNCHANGED hist

\* A handle of the given kind is constructed; hs is the history so far.
Open(kind, hs) ==
  /\ heapFile.kind = "none"
  /\ ReturnHF(HeapFile(HF, kind))
  /\ hist' = Fresh(hs)

\* HeapFileScan scan(fileName, status); scan.startScan(...) with the filter
OpenScan == Open("scan", hist)

\* InsertFileScan ins(fileName, status)
OpenInsert == Open("insert", hist)

InsertRecord ==
  /\ heapFile.kind = "insert"
  /\ Len(hist.inserted) < MaxRecs
  /\ Inserted(insertRecord(HF, TheRec))

\* scanNext(outRid), when it returns.
ScanNext ==
  /\ heapFile.kind = "scan"
  /\ scanNext(HF).status # Diverges
  /\ Scanned(scanNext(HF))

EndScan ==
  /\ heapFile.kind = "scan"
  /\ ReturnHF(endScan(HF))
  /\ hist' = [Other(hist, endScan(HF)) EXCEPT
                !.scanned = <<>>, !.last = "", !.restarted = TRUE, !.moved = FALSE,
                !.eof = "no"]

\* The HeapFileScan object goes out of scope.
CloseScan ==
  /\ heapFile.kind = "scan"
  /\ ReturnHF(DestroyHeapFileScan(HF))
  /\ hist' = Fresh(hist)

\* The InsertFileScan object goes out of scope.
CloseInsert ==
  /\ heapFile.kind = "insert"
  /\ ReturnHF(DestroyInsertFileScan(HF))
  /\ hist' = Fresh(hist)

\* bufMgr->flushFile(filePtr), by a client of the buffer manager, while no
\* handle is open.
FlushHeapFile ==
  /\ heapFile.kind = "none"
  /\ allocated > 0
  /\ ReturnHF(Call(HF, flushFile(BM, TheFile, -1)))
  /\ UNCHANGED hist

NextHF ==
  \/ CreateHeapFile
  \/ OpenScan
  \/ OpenInsert
  \/ InsertRecord
  \/ ScanNext
  \/ EndScan
  \/ CloseScan
  \/ CloseInsert
  \/ FlushHeapFile

SpecHF == InitHF /\ [][NextHF]_vars

\* ---------------------------------------------------------------- scan
\* The heap file under every operation of a handle: a file of a few
\* records, and a few handles one after the other.
OpenScanCounted ==
  /\ hist.opens < MaxOpens
  /\ Open("scan", [hist EXCEPT !.opens = @ + 1])

OpenInsertCounted ==
  /\ hist.opens < MaxOpens
  /\ Open("insert", [hist EXCEPT !.opens = @ + 1])

InsertFew ==
  /\ Len(hist.inserted) < MaxRecsScan
  /\ InsertRecord

\* getRecord(rid, rec) of either kind of handle, for the RID of a record
\* that was inserted.
GetRecord ==
  /\ heapFile.kind # "none"
  /\ \E n \in 1 .. Len(hist.inserted) :
       /\ ReturnHF(getRecord(HF, hist.inserted[n]))
       /\ hist' = [Other(hist, getRecord(HF, hist.inserted[n])) EXCEPT
                     !.moved = TRUE, !.scanned = <<>>,
                     !.eof = IF hist.eof = "no" THEN "no" ELSE "got"]

MarkScan ==
  /\ heapFile.kind = "scan"
  /\ ReturnHF(markScan(HF))
  /\ hist' = [hist EXCEPT !.marked = TRUE, !.phase = "marked",
                          !.first = NoResult, !.again = NoResult]

\* resetScan() after a markScan() of the same scan object.
ResetScan ==
  /\ heapFile.kind = "scan"
  /\ hist.marked
  /\ ReturnHF(resetScan(HF))
  /\ hist' = [hist EXCEPT
                !.failed = @ \/ ~Went(resetScan(HF)),
                !.moved = TRUE,
                !.scanned = <<>>,
                !.eof = "no",
                !.again = NoResult,
                !.phase = CASE hist.phase = "scanning" -> "reset"
                            [] hist.phase = "reset" -> "reset"
                            [] hist.phase = "marked" -> "marked"
                            [] OTHER -> "none"]

\* deleteRecord() of the record the cursor is on.
DeleteRecord ==
  /\ heapFile.kind = "scan"
  /\ heapFile.curPage # NoFrame
  /\ PageGetRecord(CurPage(HF), heapFile.curRec) = "OK"
  /\ hist.deleted < MaxDeleted
  /\ ReturnHF(deleteRecord(HF))
  /\ hist' = [Other(hist, deleteRecord(HF)) EXCEPT !.deleted = @ + 1, !.scanned = <<>>]

MarkDirty ==
  /\ heapFile.kind = "scan"
  /\ ~heapFile.curDirtyFlag
  /\ ReturnHF(markDirty(HF))
  /\ UNCHANGED hist

NextScan ==
  \/ CreateHeapFile
  \/ OpenScanCounted
  \/ OpenInsertCounted
  \/ InsertFew
  \/ ScanNext
  \/ EndScan
  \/ GetRecord
  \/ MarkScan
  \/ ResetScan
  \/ DeleteRecord
  \/ MarkDirty
  \/ CloseScan
  \/ CloseInsert

SpecScan == InitHF /\ [][NextScan]_vars

\* ---------------------------------------------------------------- dirty
\* The same handles over a file whose pages a client may flush out of the
\* pool between two handles, so that a handle finds clean pages.
MaxFlushes == 1
MaxOpensDirty == 2

OpenScanDirty ==
  /\ hist.opens < MaxOpensDirty
  /\ Open("scan", [hist EXCEPT !.opens = @ + 1])

OpenInsertDirty ==
  /\ hist.opens < MaxOpensDirty
  /\ Open("insert", [hist EXCEPT !.opens = @ + 1])

FlushCounted ==
  /\ hist.flushes < MaxFlushes
  /\ heapFile.kind = "none"
  /\ allocated > 0
  /\ ReturnHF(Call(HF, flushFile(BM, TheFile, -1)))
  /\ hist' = [hist EXCEPT !.flushes = @ + 1]

NextDirty ==
  \/ CreateHeapFile
  \/ OpenScanDirty
  \/ OpenInsertDirty
  \/ InsertFew
  \/ ScanNext
  \/ EndScan
  \/ GetRecord
  \/ MarkScan
  \/ ResetScan
  \/ DeleteRecord
  \/ MarkDirty
  \/ CloseScan
  \/ CloseInsert
  \/ FlushCounted

SpecDirty == InitHF /\ [][NextDirty]_vars

\* ---------------------------------------------------------------- filter
\* A filtered scan of int records: the predicate is drawn when the program
\* starts, a few records with any int are inserted, and the file is scanned
\* with startScan(0, sizeof(int), INTEGER, &value, op).
MaxKeys == 2

InitMatch ==
  /\ bufTable = [i \in FramesHF |->
                   [frameNo |-> i, valid |-> FALSE, file |-> NULL, pageNo |-> 0,
                    pinCnt |-> 0, dirty |-> FALSE, refbit |-> FALSE]]
  /\ bufPool = [i \in FramesHF |-> RawPage]
  /\ hashTable = [k \in KeysHF |-> NoFrame]
  /\ clockHand = NumBufsHF - 1
  /\ disk = [k \in KeysHF |-> RawPage]
  /\ expect = [k \in KeysHF |-> RawPage]
  /\ heapFile = NoHeapFile
  /\ allocated = 0
  /\ hist = NoHist
  /\ filter \in Filters

\* insertRecord of a record that holds the int key.
InsertKey ==
  /\ heapFile.kind = "insert"
  /\ Len(hist.inserted) < MaxKeys
  /\ \E key \in Ints : Inserted(insertRecord(HF, key))

NextMatch ==
  \/ CreateHeapFile
  \/ OpenInsert
  \/ InsertKey
  \/ CloseInsert
  \/ OpenScan
  \/ ScanNext
  \/ CloseScan

SpecMatch == InitMatch /\ [][NextMatch]_vars

\* ---------------------------------------------------------------- claims
\* The claims below speak of every call a client can make from a reachable
\* state: the result of the call is the record the operation returns.
Resident(file, pageNo) == lookup(hashTable, file, pageNo).status = "OK"
KeyOf(d) == <<d.file, d.pageNo>>
Calls(r, call) == {n \in 1 .. Len(r.calls) : r.calls[n].call = call}
Wrote(r, k, data) ==
  \E n \in Calls(r, "writePage") :
    /\ r.calls[n].file = k[1] /\ r.calls[n].pageNo = k[2]
    /\ r.calls[n].data = data /\ r.calls[n].ok
AllPinned == \A i \in Frames : bufTable[i].valid /\ bufTable[i].pinCnt > 0
\* The results of every readPage and every allocPage from this state.
PinResults ==
  {readPage(BM, c[1], c[2], c[3][1], c[3][2]) : c \in Files \X PageNos \X ReadIO}
    \cup {allocPage(BM, c[1], c[2][1], c[2][2]) : c \in Files \X AllocIO}

\* C1: the residency index and the frame descriptors agree: every valid
\* frame has exactly the index entry (file, pageNo) -> frameNo, every index
\* entry points to a valid frame with that file and pageNo, no page is
\* resident in two frames and the index has at most numBufs entries.
C1_IndexAgrees ==
  /\ \A i \in Frames :
       bufTable[i].valid =>
         /\ KeyOf(bufTable[i]) \in Keys
         /\ bufTable[i].frameNo = i
         /\ hashTable[KeyOf(bufTable[i])] = i
  /\ \A k \in Keys :
       hashTable[k] # NoFrame =>
         /\ hashTable[k] \in Frames
         /\ bufTable[hashTable[k]].valid
         /\ KeyOf(bufTable[hashTable[k]]) = k
  /\ \A i, j \in Frames :
       (bufTable[i].valid /\ bufTable[j].valid
          /\ KeyOf(bufTable[i]) = KeyOf(bufTable[j])) => i = j
  /\ Cardinality({k \in Keys : hashTable[k] # NoFrame}) <= NumBufs

\* C1's case: the pool is full and a page that was written back has been
\* replaced by another.
C1_Witness ==
  /\ \A i \in Frames : bufTable[i].valid
  /\ \E k \in Keys : hashTable[k] = NoFrame /\ disk[k] # 0

\* C2: allocBuf never hands out a frame whose pinCnt > 0, so readPage and
\* allocPage of another page leave every pinned frame with its page, its
\* content and its index entry.
C2_NeverSelectsPinned ==
  \A r \in PinResults :
    /\ r.allocFrame # NoFrame => bufTable[r.allocFrame].pinCnt = 0
    /\ \A i \in Frames :
         (bufTable[i].valid /\ bufTable[i].pinCnt > 0) =>
           /\ r.bufTable[i].valid
           /\ KeyOf(r.bufTable[i]) = KeyOf(bufTable[i])
           /\ r.bufTable[i].pinCnt >= bufTable[i].pinCnt
           /\ r.bufPool[i] = bufPool[i]
           /\ r.hashTable[KeyOf(bufTable[i])] = i

\* C2's case: a readPage evicts a victim while another frame is pinned.
C2_Witness ==
  \E file \in Files, pageNo \in PageNos :
    LET r == readPage(BM, file, pageNo, TRUE, TRUE)
    IN /\ r.status = "OK" /\ r.victim
       /\ \E j \in Frames : j # r.allocFrame /\ bufTable[j].valid /\ bufTable[j].pinCnt > 0

\* C3: read-your-writes across eviction: a dirty unpin sets the dirty bit,
\* a page that leaves the pool dirty (allocBuf's victim, flushFile) is on
\* disk as the pool held it, and a readPage miss returns what is on disk.
C3_ReadYourWrites ==
  /\ \A k \in Keys : disk[k] = expect[k]
  /\ \A file \in Files, pageNo \in PageNos :
       LET r == readPage(BM, file, pageNo, TRUE, TRUE)
           u == unPinPage(BM, file, pageNo, TRUE)
       IN /\ (~Resident(file, pageNo) /\ r.status = "OK") =>
               /\ r.bufPool[r.frame] = r.expect[<<file, pageNo>>]
               /\ r.hashTable[<<file, pageNo>>] = r.frame
          /\ u.status = "OK" => u.bufTable[u.frame].dirty

\* C3's case: a page whose modified content was written back at its
\* eviction is read again and comes back modified.
C3_Witness ==
  \E file \in Files, pageNo \in PageNos :
    /\ ~Resident(file, pageNo)
    /\ disk[<<file, pageNo>>] # 0
    /\ LET r == readPage(BM, file, pageNo, TRUE, TRUE)
       IN r.status = "OK" /\ r.victim /\ r.bufPool[r.frame] = disk[<<file, pageNo>>]

\* C4: after flushFile(F) returns OK no valid frame has file = F, the index
\* has no entry for a page of F, and every page of F that was dirty in the
\* pool is on disk with the content the pool held.
C4_FlushFileOK ==
  \A file \in Files, wfail \in WFail :
    LET r == flushFile(BM, file, wfail)
    IN r.status = "OK" =>
         /\ \A i \in Frames : ~(r.bufTable[i].valid /\ r.bufTable[i].file = file)
         /\ \A pageNo \in PageNos : r.hashTable[<<file, pageNo>>] = NoFrame
         /\ \A i \in Frames :
              (bufTable[i].valid /\ bufTable[i].file = file /\ bufTable[i].dirty) =>
                /\ r.disk[KeyOf(bufTable[i])] = bufPool[i]
                /\ Wrote(r, KeyOf(bufTable[i]), bufPool[i])

\* C4's case: flushFile writes a modified page of F back and succeeds while
\* a page of another file is resident.
C4_Witness ==
  \E file \in Files :
    /\ flushFile(BM, file, -1).status = "OK"
    /\ \E i \in Frames :
         /\ bufTable[i].valid /\ bufTable[i].file = file /\ bufTable[i].dirty
         /\ bufPool[i] # disk[KeyOf(bufTable[i])]
    /\ \E j \in Frames : bufTable[j].valid /\ bufTable[j].file # file

\* C5: allocBuf (and so readPage on a miss and allocPage) returns
\* BUFFEREXCEEDED only if every frame is valid with pinCnt > 0.
C5_ExceededOnlyIfAllPinned ==
  \A r \in PinResults : r.status = "BUFFEREXCEEDED" => AllPinned

\* What "the call evicts nothing" means in C6: no descriptor's valid, file,
\* pageNo, pinCnt or dirty changes, the index is as it was, and no writePage
\* or readPage reaches the file.
EvictsNothing(r) ==
  /\ \A i \in Frames :
       /\ r.bufTable[i].valid = bufTable[i].valid
       /\ r.bufTable[i].file = bufTable[i].file
       /\ r.bufTable[i].pageNo = bufTable[i].pageNo
       /\ r.bufTable[i].pinCnt = bufTable[i].pinCnt
       /\ r.bufTable[i].dirty = bufTable[i].dirty
  /\ r.hashTable = hashTable
  /\ r.disk = disk /\ r.bufPool = bufPool
  /\ Calls(r, "writePage") = {} /\ Calls(r, "readPage") = {}

\* C6 as stated: with every frame valid and pinned, readPage of a
\* non-resident page and allocPage return BUFFEREXCEEDED and evict nothing.
C6_AllPinnedExceeded ==
  AllPinned =>
    /\ \A file \in Files, pageNo \in PageNos, io \in ReadIO :
         ~Resident(file, pageNo) =>
           LET r == readPage(BM, file, pageNo, io[1], io[2])
           IN r.status = "BUFFEREXCEEDED" /\ EvictsNothing(r)
    /\ \A file \in Files, io \in AllocIO :
         LET r == allocPage(BM, file, io[1], io[2])
         IN r.status = "BUFFEREXCEEDED" /\ EvictsNothing(r)

\* C6 amended: as C6, but allocPage returns BUFFEREXCEEDED only when
\* File::allocatePage succeeded; when it fails allocPage returns that error
\* (and still evicts nothing).
C6_AllPinnedExceededAmended ==
  AllPinned =>
    /\ \A file \in Files, pageNo \in PageNos, io \in ReadIO :
         ~Resident(file, pageNo) =>
           LET r == readPage(BM, file, pageNo, io[1], io[2])
           IN r.status = "BUFFEREXCEEDED" /\ EvictsNothing(r)
    /\ \A file \in Files, io \in AllocIO :
         LET r == allocPage(BM, file, io[1], io[2])
         IN /\ r.status = IF io[1] = -1 THEN "UNIXERR" ELSE "BUFFEREXCEEDED"
            /\ EvictsNothing(r)

\* C6's case: every frame is pinned, a sweep has already cleared the
\* reference bits, and a readPage of a non-resident page is refused.
C6_Witness ==
  /\ AllPinned
  /\ \A i \in Frames : ~bufTable[i].refbit
  /\ \E file \in Files, pageNo \in PageNos :
       /\ ~Resident(file, pageNo)
       /\ readPage(BM, file, pageNo, TRUE, TRUE).status = "BUFFEREXCEEDED"

\* C7: pin balance: a successful readPage or allocPage raises the pinCnt of
\* the page's frame by exactly one (to 1 when the page was not resident), a
\* successful unPinPage lowers it by exactly one.
C7_PinBalance ==
  /\ \A file \in Files, pageNo \in PageNos, io \in ReadIO :
       LET r == readPage(BM, file, pageNo, io[1], io[2])
       IN r.status = "OK" =>
            /\ r.hashTable[<<file, pageNo>>] = r.frame
            /\ r.bufTable[r.frame].pinCnt =
                 IF Resident(file, pageNo)
                 THEN bufTable[hashTable[<<file, pageNo>>]].pinCnt + 1
                 ELSE 1
            /\ Resident(file, pageNo) => r.frame = hashTable[<<file, pageNo>>]
  /\ \A file \in Files, io \in AllocIO :
       LET r == allocPage(BM, file, io[1], io[2])
       IN r.status = "OK" =>
            /\ r.hashTable[<<file, r.pageNo>>] = r.frame
            /\ r.bufTable[r.frame].pinCnt = 1
  /\ \A file \in Files, pageNo \in PageNos, dirty \in BOOLEAN :
       LET r == unPinPage(BM, file, pageNo, dirty)
       IN r.status = "OK" =>
            /\ Resident(file, pageNo)
            /\ r.frame = hashTable[<<file, pageNo>>]
            /\ r.hashTable[<<file, pageNo>>] = r.frame
            /\ r.bufTable[r.frame].pinCnt = bufTable[r.frame].pinCnt - 1

\* C7's case: a page pinned twice (a miss, then a hit) is unpinned once.
C7_Witness ==
  \E file \in Files, pageNo \in PageNos :
    /\ Resident(file, pageNo)
    /\ bufTable[hashTable[<<file, pageNo>>]].pinCnt = 2
    /\ LET r == unPinPage(BM, file, pageNo, FALSE)
       IN r.status = "OK" /\ r.bufTable[r.frame].pinCnt = 1

\* The results of every call but disposePage of page k.
ResultsNotDisposing(k) ==
  PinResults
    \cup {unPinPage(BM, c[1], c[2], c[3]) : c \in Files \X PageNos \X BOOLEAN}
    \cup {flushFile(BM, c[1], c[2]) : c \in Files \X WFail}
    \cup {disposePage(BM, c[1], c[2], c[3]) :
            c \in {x \in Files \X PageNos \X BOOLEAN : <<x[1], x[2]>> # k}}
\* The frame i, dirty with page k, is still dirty with page k after the
\* call, or the call wrote its content to the file.
StaysDirtyOrWritten(r, i, k) ==
  \/ r.bufTable[i].valid /\ KeyOf(r.bufTable[i]) = k /\ r.bufTable[i].dirty
       /\ r.hashTable[k] = i /\ r.bufPool[i] = bufPool[i]
  \/ Wrote(r, k, bufPool[i]) /\ r.disk[k] = bufPool[i]
\* An unPinPage(F, p, dirty = true) that succeeded left the frame dirty.
DirtyAfterUnpin(r) == r.status = "OK" => r.bufTable[r.frame].dirty

\* C8 as stated: a successful unPinPage with dirty = true leaves the frame
\* dirty, and a dirty frame stays dirty until its content has been written
\* to the file, whatever is called, disposePage included.
C8_DirtyUntilWritten ==
  /\ \A file \in Files, pageNo \in PageNos :
       DirtyAfterUnpin(unPinPage(BM, file, pageNo, TRUE))
  /\ \A i \in Frames :
    (bufTable[i].valid /\ bufTable[i].dirty) =>
      /\ \A r \in ResultsNotDisposing(KeyOf(bufTable[i])) :
           StaysDirtyOrWritten(r, i, KeyOf(bufTable[i]))
      /\ \A dOK \in BOOLEAN :
           StaysDirtyOrWritten(
             disposePage(BM, bufTable[i].file, bufTable[i].pageNo, dOK),
             i, KeyOf(bufTable[i]))

\* C8 amended: a successful unPinPage with dirty = true leaves the frame
\* dirty, and a dirty frame stays dirty until its content has been written
\* to the file or its page is disposed of: disposePage of the page clears
\* the frame without a write-back.
C8_DirtyUntilWrittenOrDisposed ==
  /\ \A file \in Files, pageNo \in PageNos :
       DirtyAfterUnpin(unPinPage(BM, file, pageNo, TRUE))
  /\ \A i \in Frames :
    (bufTable[i].valid /\ bufTable[i].dirty) =>
      /\ \A r \in ResultsNotDisposing(KeyOf(bufTable[i])) :
           StaysDirtyOrWritten(r, i, KeyOf(bufTable[i]))
      /\ \A dOK \in BOOLEAN :
           LET r == disposePage(BM, bufTable[i].file, bufTable[i].pageNo, dOK)
           IN /\ ~r.bufTable[i].valid /\ ~r.bufTable[i].dirty
              /\ r.hashTable[KeyOf(bufTable[i])] = NoFrame
              /\ Calls(r, "writePage") = {} /\ r.disk = disk

\* C8's case: a frame that is dirty, still pinned and holds content that
\* is not on disk.
C8_Witness ==
  \E i \in Frames :
    /\ bufTable[i].valid /\ bufTable[i].dirty /\ bufTable[i].pinCnt > 0
    /\ bufPool[i] # disk[KeyOf(bufTable[i])]
    /\ unPinPage(BM, bufTable[i].file, bufTable[i].pageNo, FALSE).status = "OK"

\* C9: unPinPage returns HASHNOTFOUND for a page that is not resident and
\* PAGENOTPINNED for a resident page with pinCnt = 0, changing no
\* descriptor, no index entry and no clockHand; pinCnt >= 0 in every frame.
C9_UnpinNeverNegative ==
  /\ \A i \in Frames : bufTable[i].pinCnt >= 0
  /\ \A file \in Files, pageNo \in PageNos, dirty \in BOOLEAN :
       LET r == unPinPage(BM, file, pageNo, dirty)
           unchanged == /\ r.bufTable = bufTable /\ r.hashTable = hashTable
                        /\ r.clockHand = clockHand
       IN /\ ~Resident(file, pageNo) => (r.status = "HASHNOTFOUND" /\ unchanged)
          /\ (Resident(file, pageNo) /\ bufTable[hashTable[<<file, pageNo>>]].pinCnt = 0)
               => (r.status = "PAGENOTPINNED" /\ unchanged)
          /\ \A i \in Frames : r.bufTable[i].pinCnt >= 0

\* C9's case: an unpinned resident page and a page that is not resident,
\* with unPinPage refusing both.
C9_Witness ==
  /\ \E file \in Files, pageNo \in PageNos :
       /\ Resident(file, pageNo)
       /\ bufTable[hashTable[<<file, pageNo>>]].pinCnt = 0
       /\ unPinPage(BM, file, pageNo, TRUE).status = "PAGENOTPINNED"
  /\ \E file \in Files, pageNo \in PageNos :
       /\ ~Resident(file, pageNo)
       /\ unPinPage(BM, file, pageNo, TRUE).status = "HASHNOTFOUND"

\* The content of page k as a reader sees it: the pooled copy when the page
\* is resident, else the copy on disk.
Content(k) == IF hashTable[k] # NoFrame THEN bufPool[hashTable[k]] ELSE disk[k]
\* The RIDs of the records of data page p, in slot order.
RECURSIVE PageRids(_, _)
PageRids(p, slotNo) ==
  LET n == nextRecord(p, [pageNo |-> p.curPage, slotNo |-> slotNo])
  IN IF n.status # "OK" THEN <<>> ELSE <<n.rid>> \o PageRids(p, n.rid.slotNo)
\* The RIDs of the file from page pageNo on, along the page list (at most
\* fuel pages).
RECURSIVE ListRids(_, _)
ListRids(pageNo, fuel) ==
  IF pageNo = -1 \/ fuel = 0 \/ <<TheFile, pageNo>> \notin KeysHF
  THEN <<>>
  ELSE PageRids(Content(<<TheFile, pageNo>>), -1)
         \o ListRids(Content(<<TheFile, pageNo>>).nextPage, fuel - 1)
FileRids == ListRids(Content(<<TheFile, 0>>).firstPage, MaxFilePages)
Range(q) == {q[n] : n \in 1 .. Len(q)}

\* C10: scan exhaustiveness: with no deletion and filter = NULL, when
\* scanNext returns FILEEOF the RIDs it returned since the scan began (the
\* scan object was opened, or endScan was called) are every inserted RID
\* exactly once, in page-list order and slot order within a page.
C10_ScanExhaustive ==
  (heapFile.kind = "scan" /\ hist.last = "FILEEOF"
     /\ hist.deleted = 0 /\ ~hist.moved /\ ~hist.failed) =>
    /\ hist.scanned = FileRids
    /\ Range(hist.scanned) = Range(hist.inserted)
    /\ Len(hist.scanned) = Len(hist.inserted)

\* The frame the hand points at after n advances.
Visit(n) == (clockHand + n) % NumBufs
\* The second-chance rule, stated without the loop: the frame visited at the
\* n-th advance can be taken when it is invalid, or unpinned with its refbit
\* clear; a refbit that was set is clear from the second visit on.
Takeable(n) ==
  LET d == bufTable[Visit(n)]
  IN ~d.valid \/ (d.pinCnt = 0 /\ (n > NumBufs \/ ~d.refbit))
FirstTakeable == Min({n \in 1 .. (2 * NumBufs) : Takeable(n)})
\* The call r took its frame by the rule: the first takeable frame, with the
\* hand on it, and every other frame visited on the way has its refbit clear
\* while the frames not visited keep theirs.
ByTheRule(r) ==
  /\ {n \in 1 .. (2 * NumBufs) : Takeable(n)} # {}
  /\ r.allocFrame = Visit(FirstTakeable)
  /\ r.clockHand = r.allocFrame
  /\ r.advances = FirstTakeable
  /\ \A i \in Frames \ {r.allocFrame} :
       r.bufTable[i].refbit =
         (bufTable[i].refbit /\ ~\E n \in 1 .. (FirstTakeable - 1) : Visit(n) = i)

\* C17: clock victim selection is the deterministic second-chance rule:
\* whenever allocBuf hands out a frame (inside readPage on a miss, inside
\* allocPage), it is the first frame from clockHand + 1 on, in increasing
\* order modulo numBufs, that is invalid or has refbit = 0 and pinCnt = 0 at
\* its visit, frames visited with refbit = 1 are cleared and skipped once,
\* and clockHand ends on the frame; a fresh pool hands out frame 0 first.
C17_SecondChance ==
  /\ \A r \in PinResults : r.allocFrame # NoFrame => ByTheRule(r)
  /\ \A wOK \in BOOLEAN :
       LET a == allocBuf(BM, wOK)
       IN /\ a.status = "OK" => ByTheRule(a)
          /\ ((\A i \in Frames : ~bufTable[i].valid) /\ clockHand = NumBufs - 1)
               => a.allocFrame = 0

\* C17's case: every frame holds an unpinned page with refbit = 1; a miss
\* sweeps once clearing the refbits and evicts the frame after the hand.
C17_Witness ==
  /\ \A i \in Frames : bufTable[i].valid /\ bufTable[i].pinCnt = 0 /\ bufTable[i].refbit
  /\ \E file \in Files, pageNo \in PageNos :
       LET r == readPage(BM, file, pageNo, TRUE, TRUE)
       IN /\ ~Resident(file, pageNo) /\ r.status = "OK" /\ r.victim
          /\ r.allocFrame = (clockHand + 1) % NumBufs
          /\ r.advances = NumBufs + 1

\* C18: allocBuf terminates from every reachable pool state after at most
\* 2 * numBufs advances of clockHand, returning OK, BUFFEREXCEEDED, UNIXERR
\* or an index error.
C18_AllocBufTerminates ==
  \A wOK \in BOOLEAN :
    LET a == allocBuf(BM, wOK)
    IN /\ a.advances <= 2 * NumBufs
       /\ a.status \in {"OK", "BUFFEREXCEEDED", "UNIXERR", "HASHNOTFOUND", "HASHTBLERROR"}
       /\ a.status = "OK" <=> a.allocFrame # NoFrame

\* C18's case: a call that needs both sweeps: every frame pinned with its
\* refbit set, 2 * numBufs advances, BUFFEREXCEEDED.
C18_Witness ==
  /\ \A i \in Frames : bufTable[i].valid /\ bufTable[i].pinCnt > 0 /\ bufTable[i].refbit
  /\ allocBuf(BM, TRUE).advances = 2 * NumBufs
  /\ allocBuf(BM, TRUE).status = "BUFFEREXCEEDED"

\* Every frame but i, the index, the hand, the pool and the disk are after
\* the call r as before it.
OnlyFrameChanged(r, i) ==
  /\ \A j \in Frames \ {i} : r.bufTable[j] = bufTable[j]
  /\ r.hashTable = hashTable /\ r.clockHand = clockHand
  /\ r.bufPool = bufPool /\ r.disk = disk
\* unPinPage returning OK changed only pinCnt and, to set it, dirty.
UnpinEffect(file, pageNo, dirty) ==
  LET r == unPinPage(BM, file, pageNo, dirty)
      i == hashTable[<<file, pageNo>>]
  IN r.status = "OK" =>
       /\ Resident(file, pageNo)
       /\ r.bufTable[i] = [bufTable[i] EXCEPT !.pinCnt = @ - 1, !.dirty = @ \/ dirty]
       /\ r.bufTable[i].valid
       /\ OnlyFrameChanged(r, i)
       /\ r.calls = <<>>
\* readPage of a resident page is a hit: same frame, refbit set, pinCnt + 1,
\* no File call.
HitEffect(file, pageNo, io) ==
  LET r == readPage(BM, file, pageNo, io[1], io[2])
      i == hashTable[<<file, pageNo>>]
  IN Resident(file, pageNo) =>
       /\ r.status = "OK" /\ r.frame = i
       /\ r.bufTable[i] = [bufTable[i] EXCEPT !.pinCnt = @ + 1, !.refbit = TRUE]
       /\ OnlyFrameChanged(r, i)
       /\ r.calls = <<>>

\* C19 as stated: unPinPage returning OK changes only pinCnt and possibly
\* dirty and leaves the page cached; a readPage of a resident page is a hit
\* with no file.readPage; a readPage of a non-resident page issues exactly
\* one file.readPage.
C19_StaysCached ==
  \A file \in Files, pageNo \in PageNos :
    /\ \A dirty \in BOOLEAN : UnpinEffect(file, pageNo, dirty)
    /\ \A io \in ReadIO :
         /\ HitEffect(file, pageNo, io)
         /\ ~Resident(file, pageNo) =>
              Cardinality(Calls(readPage(BM, file, pageNo, io[1], io[2]), "readPage")) = 1

\* C19 amended: as C19, but a readPage of a non-resident page issues exactly
\* one file.readPage when allocBuf handed out a frame, and none when
\* allocBuf failed (BUFFEREXCEEDED, or UNIXERR from the victim's write-back).
C19_StaysCachedAmended ==
  \A file \in Files, pageNo \in PageNos :
    /\ \A dirty \in BOOLEAN : UnpinEffect(file, pageNo, dirty)
    /\ \A io \in ReadIO :
         /\ HitEffect(file, pageNo, io)
         /\ ~Resident(file, pageNo) =>
              LET r == readPage(BM, file, pageNo, io[1], io[2])
              IN Cardinality(Calls(r, "readPage")) =
                   IF r.allocFrame # NoFrame THEN 1 ELSE 0

\* C19's case: a page whose last pin was released with dirty = true is still
\* cached with pinCnt = 0, and reading it again is a hit.
C19_Witness ==
  \E file \in Files, pageNo \in PageNos :
    /\ Resident(file, pageNo)
    /\ bufTable[hashTable[<<file, pageNo>>]].pinCnt = 0
    /\ bufTable[hashTable[<<file, pageNo>>]].dirty
    /\ ~bufTable[hashTable[<<file, pageNo>>]].refbit
    /\ LET r == readPage(BM, file, pageNo, TRUE, TRUE)
       IN r.status = "OK" /\ r.calls = <<>> /\ r.bufTable[r.frame].refbit

\* C20: disposePage(F, p) calls file.disposePage(p) exactly once, whether or
\* not the page is resident, and returns its status; a resident page's frame
\* is cleared whatever its pinCnt and dirty bit, with no write-back, and its
\* index entry removed; no other frame or index entry changes.
C20_DisposePage ==
  \A file \in Files, pageNo \in PageNos, dOK \in BOOLEAN :
    LET r == disposePage(BM, file, pageNo, dOK)
        i == hashTable[<<file, pageNo>>]
    IN /\ r.calls = <<FileCall("disposePage", file, pageNo, -1, dOK)>>
       /\ r.status = IF dOK THEN "OK" ELSE "UNIXERR"
       /\ r.disk = disk /\ r.clockHand = clockHand
       /\ r.hashTable[<<file, pageNo>>] = NoFrame
       /\ \A k \in Keys \ {<<file, pageNo>>} : r.hashTable[k] = hashTable[k]
       /\ \A j \in Frames \ {i} : r.bufTable[j] = bufTable[j]
       /\ Resident(file, pageNo) =>
            /\ ~r.bufTable[i].valid /\ r.bufTable[i].pinCnt = 0
            /\ ~r.bufTable[i].dirty /\ ~r.bufTable[i].refbit
            /\ r.bufTable[i].file = NULL /\ r.bufTable[i].frameNo = i

\* C20's case: a resident page that is pinned, dirty and not yet on disk is
\* disposed of.
C20_Witness ==
  \E i \in Frames :
    /\ bufTable[i].valid /\ bufTable[i].pinCnt > 0 /\ bufTable[i].dirty
    /\ bufPool[i] # disk[KeyOf(bufTable[i])]
    /\ ~disposePage(BM, bufTable[i].file, bufTable[i].pageNo, TRUE).bufTable[i].valid

\* The content of page k after a call that ended in buffer-manager record r.
ContentIn(r, k) ==
  IF r.hashTable[k] # NoFrame THEN r.bufPool[r.hashTable[k]] ELSE r.disk[k]
\* The header page as a reader sees it.
Header == Content(<<TheFile, 0>>)
\* The data pages from pageNo on, along the nextPage links (at most fuel).
RECURSIVE Chain(_, _)
Chain(pageNo, fuel) ==
  IF pageNo = -1 \/ fuel = 0 \/ <<TheFile, pageNo>> \notin KeysHF
  THEN <<>>
  ELSE <<pageNo>> \o Chain(Content(<<TheFile, pageNo>>).nextPage, fuel - 1)
\* The page list is whole: pageCnt distinct pages from firstPage, the last
\* of them lastPage, whose nextPage is -1.
ListWhole(c) ==
  /\ Len(c) = Header.pageCnt
  /\ Cardinality(Range(c)) = Len(c)
  /\ Len(c) > 0
  /\ c[Len(c)] = Header.lastPage
  /\ Content(<<TheFile, Header.lastPage>>).nextPage = -1
\* An insertRecord that ended in r overflowed into a new page: the page that
\* was last is linked to the new page and pageCnt grew by one.
LinkedBehindLast(r) ==
  (r.status = "OK" /\ r.allocated = allocated + 1) =>
    /\ ContentIn(r.bm, <<TheFile, Header.lastPage>>).nextPage = allocated
    /\ ContentIn(r.bm, <<TheFile, 0>>).lastPage = allocated
    /\ ContentIn(r.bm, <<TheFile, 0>>).pageCnt = Header.pageCnt + 1

\* C12: page-list integrity under insertion: after insertRecord calls that
\* returned OK the nextPage links from headerPage.firstPage visit exactly
\* pageCnt distinct data pages and end at lastPage, whose nextPage is -1; an
\* insertRecord that overflows links the former last page to the new page
\* and raises pageCnt by one.
C12_PageList ==
  /\ allocated > 0 => ListWhole(Chain(Header.firstPage, MaxFilePages + 1))
  /\ heapFile.kind = "insert" => LinkedBehindLast(insertRecord(HF, TheRec))

\* The header page is in the pool, in a frame that is not dirty.
HeaderClean ==
  /\ hashTable[<<TheFile, 0>>] # NoFrame
  /\ ~bufTable[hashTable[<<TheFile, 0>>]].dirty

\* C13: every update of headerPage.recCnt sets hdrDirtyFlag: it is true
\* after an insertRecord that returns OK and after deleteRecord, so that the
\* destructor unpins the header page dirty and recCnt, lastPage and pageCnt
\* survive the header's eviction: once the handle is closed, a header frame
\* that is not dirty holds what the disk holds.
C13_HeaderDirty ==
  /\ heapFile.kind = "insert" =>
       (insertRecord(HF, TheRec).status = "OK" =>
          insertRecord(HF, TheRec).f.hdrDirtyFlag)
  /\ (heapFile.kind = "scan" /\ heapFile.curPage # NoFrame) =>
       deleteRecord(HF).f.hdrDirtyFlag
  /\ (heapFile.kind = "none" /\ HeaderClean) =>
       bufPool[hashTable[<<TheFile, 0>>]] = disk[<<TheFile, 0>>]

\* createHeapFile that ended in r left the pool, the disk and the file as
\* they were.
NothingChanged(r) ==
  /\ r.allocated = allocated
  /\ r.bm.bufTable = bufTable /\ r.bm.bufPool = bufPool
  /\ r.bm.hashTable = hashTable /\ r.bm.clockHand = clockHand
  /\ r.bm.disk = disk /\ r.bm.calls = <<>>
\* createHeapFile that ended in r made the file: a header page and one
\* empty data page, both written, and no frame left to the file.
Created(r) ==
  LET hdr == r.bm.disk[<<TheFile, 0>>]
  IN /\ r.allocated = 2
     /\ hdr.firstPage = 1 /\ hdr.lastPage = 1
     /\ hdr.pageCnt = 1 /\ hdr.recCnt = 0
     /\ r.bm.disk[<<TheFile, 1>>].slots = <<>>
     /\ r.bm.disk[<<TheFile, 1>>].nextPage = -1
     /\ Wrote(r.bm, <<TheFile, 0>>, hdr)
     /\ Wrote(r.bm, <<TheFile, 1>>, r.bm.disk[<<TheFile, 1>>])
     /\ \A i \in FramesHF :
          /\ ~(r.bm.bufTable[i].valid /\ r.bm.bufTable[i].file = TheFile)
          /\ r.bm.bufTable[i].pinCnt = 0
     /\ \A k \in KeysHF : r.bm.hashTable[k] = NoFrame

Pins(k) == IF hashTable[k] # NoFrame THEN bufTable[hashTable[k]].pinCnt ELSE 0
\* The pins the open handle owns on page k: one on its header page and one
\* on page curPageNo when curPage is not null.
Owned(k) ==
  (IF k = <<TheFile, heapFile.headerPageNo>> THEN 1 ELSE 0)
    + (IF heapFile.curPage # NoFrame /\ k = <<TheFile, heapFile.curPageNo>>
       THEN 1 ELSE 0)

\* C15: heap-file pin discipline: while every call of the handle returned
\* OK or FILEEOF, the handle holds one pin on its header page, one on page
\* curPageNo if curPage is not null, and no other; once the handle is
\* destroyed no page is pinned, as before the open.
C15_PinDiscipline ==
  ~hist.failed =>
    IF heapFile.kind = "none"
    THEN \A i \in FramesHF : bufTable[i].pinCnt = 0
    ELSE /\ \A k \in KeysHF : Pins(k) = Owned(k)
         /\ \A i \in FramesHF : ~bufTable[i].valid => bufTable[i].pinCnt = 0

\* The pins on page k after a call that ended in buffer-manager record r.
PinsIn(r, k) ==
  IF r.hashTable[k] # NoFrame THEN r.bufTable[r.hashTable[k]].pinCnt ELSE 0
\* resetScan that ended in r left one pin on the marked page and none on
\* the page the cursor was on.
PinsAfterReset(r) ==
  /\ r.status = "OK"
  /\ r.f.curPage # NoFrame
  /\ r.f.curPageNo = heapFile.markedPageNo
  /\ PinsIn(r.bm, <<TheFile, heapFile.markedPageNo>>) = 1
  /\ heapFile.curPageNo # heapFile.markedPageNo =>
       PinsIn(r.bm, <<TheFile, heapFile.curPageNo>>) = 0

\* C11: mark/reset: after markScan, k >= 1 calls of scanNext, resetScan and
\* one more scanNext, that scanNext returns the RID the first scanNext after
\* the mark returned; and resetScan leaves the handle with one pin on the
\* marked page and none on the page it left.
C11_MarkReset ==
  /\ (hist.phase = "checked" /\ hist.first.status = "OK") =>
       hist.again = hist.first
  /\ (heapFile.kind = "scan" /\ hist.phase = "scanning" /\ ~hist.failed) =>
       PinsAfterReset(resetScan(HF))

\* The record with RID rid, as a reader sees it.
RecordAt(rid) == Content(<<TheFile, rid.pageNo>>).slots[rid.slotNo + 1]
\* The int attr stands in relation filter.op to the filter's int.
Related(attr) == OpHolds(filter.op, attr - filter.value)
\* The record with RID rid satisfies the predicate.
Matching(rid) == Related(RecordAt(rid))

\* C14: filtered integer scan: with type = INTEGER and a filter, matchRec is
\* true exactly when the record's int stands in relation op to the filter's
\* int, for every pair of ints of the machine width, a pair whose difference
\* overflows included; and a scan that has returned FILEEOF has returned
\* exactly the RIDs of the matching records, in scan order.
C14_FilteredScan ==
  filter # NoFilter =>
    /\ \A attr \in Ints : matchRec(attr) = Related(attr)
    /\ (heapFile.kind = "scan" /\ hist.last = "FILEEOF" /\ ~hist.failed) =>
         hist.scanned = SelectSeq(FileRids, Matching)

\* The frames that hold a page of the file, below frame p.
FramesBelow(p, file) ==
  {i \in Frames : i < p /\ bufTable[i].valid /\ bufTable[i].file = file}

\* flushFile's loop meets frame p as the first pinned frame of the file.
FirstPinned(p, file) ==
  /\ bufTable[p].valid /\ bufTable[p].file = file /\ bufTable[p].pinCnt > 0
  /\ \A i \in FramesBelow(p, file) : bufTable[i].pinCnt = 0

\* C21 as stated: when flushFile(F) returns PAGEPINNED, the pool, the index and
\* the file are as they were before the call (nothing written back, nothing
\* invalidated, nothing removed from the index).
C21_FlushAllOrNothing ==
  \A file \in Files, wfail \in WFail :
    LET r == flushFile(BM, file, wfail)
    IN r.status = "PAGEPINNED" =>
         /\ r.bufTable = bufTable
         /\ r.hashTable = hashTable
         /\ r.disk = disk
         /\ r.calls = <<>>

\* C21, amended: when flushFile(F) returns PAGEPINNED, the frames of F that lie
\* below the first pinned frame of F have been flushed (written back if dirty,
\* invalidated, removed from the index); the pinned frame, every frame above
\* it and every frame of another file are as they were before the call.
C21_FlushUpToPinned ==
  \A file \in Files, wfail \in WFail :
    LET r == flushFile(BM, file, wfail)
    IN r.status = "PAGEPINNED" =>
         \E p \in Frames :
           /\ FirstPinned(p, file)
           /\ r.bufPool = bufPool
           /\ \A i \in Frames \ FramesBelow(p, file) :
                /\ r.bufTable[i] = bufTable[i]
                /\ bufTable[i].valid =>
                     r.hashTable[KeyOf(bufTable[i])] = hashTable[KeyOf(bufTable[i])]
           /\ \A i \in FramesBelow(p, file) :
                /\ ~r.bufTable[i].valid /\ r.bufTable[i].file = NULL
                /\ r.hashTable[KeyOf(bufTable[i])] = NoFrame
                /\ bufTable[i].dirty =>
                     /\ r.disk[KeyOf(bufTable[i])] = bufPool[i]
                     /\ Wrote(r, KeyOf(bufTable[i]), bufPool[i])
           /\ Cardinality(Calls(r, "writePage")) =
                Cardinality({i \in FramesBelow(p, file) : bufTable[i].dirty})

\* C21's case: flushFile meets a pinned frame of the file after it has
\* written back and invalidated a modified page of the same file.
C21_Witness ==
  \E file \in Files, p \in Frames :
    /\ FirstPinned(p, file)
    /\ \E i \in FramesBelow(p, file) :
         bufTable[i].dirty /\ bufPool[i] # disk[KeyOf(bufTable[i])]
    /\ flushFile(BM, file, -1).status = "PAGEPINNED"

\* Nothing is lost between this state and result r: every frame keeps its
\* validity, page, pin count, dirty bit and content, the index and the disk
\* are unchanged (allocBuf may have cleared reference bits on its way).
NothingLost(r) ==
  /\ r.hashTable = hashTable
  /\ r.bufPool = bufPool
  /\ r.disk = disk
  /\ \A i \in Frames : [r.bufTable[i] EXCEPT !.refbit = FALSE] =
                       [bufTable[i] EXCEPT !.refbit = FALSE]

\* The frame the clock hand of r rests on is a modified, unpinned, mapped page
\* whose write-back was attempted once and failed.
FailedVictim(r) ==
  LET cur == bufTable[r.clockHand]
  IN /\ cur.valid /\ cur.dirty /\ cur.pinCnt = 0
     /\ r.bufTable[r.clockHand].valid /\ r.bufTable[r.clockHand].dirty
     /\ r.bufTable[r.clockHand].pinCnt = cur.pinCnt
     /\ r.hashTable[KeyOf(cur)] = r.clockHand
     /\ Cardinality(Calls(r, "writePage")) = 1
     /\ \A n \in Calls(r, "writePage") :
          /\ ~r.calls[n].ok /\ r.calls[n].data = bufPool[r.clockHand]
          /\ r.calls[n].file = cur.file /\ r.calls[n].pageNo = cur.pageNo

\* C22: when the write-back of allocBuf's dirty victim fails, allocBuf returns
\* UNIXERR and the victim is still valid, dirty, mapped and unpinned as before;
\* readPage and allocPage return that error without pinning or mapping
\* anything; allocBuf issues at most one file.writePage per call.
C22_FailedWriteBack ==
  /\ \A wOK \in BOOLEAN :
       LET r == allocBuf(BM, wOK)
       IN /\ Cardinality(Calls(r, "writePage")) <= 1
          /\ r.status = "UNIXERR" => (~wOK /\ FailedVictim(r) /\ NothingLost(r))
          /\ (\E n \in Calls(r, "writePage") : ~r.calls[n].ok) => r.status = "UNIXERR"
  /\ \A file \in Files, pageNo \in PageNos :
       ~Resident(file, pageNo) =>
         LET r == readPage(BM, file, pageNo, FALSE, TRUE)
         IN (\E n \in Calls(r, "writePage") : ~r.calls[n].ok) =>
              /\ r.status = "UNIXERR" /\ r.frame = NoFrame
              /\ FailedVictim(r) /\ NothingLost(r)
              /\ Calls(r, "readPage") = {}
  /\ \A file \in Files, pageNum \in PageNos :
       LET r == allocPage(BM, file, pageNum, FALSE)
       IN (\E n \in Calls(r, "writePage") : ~r.calls[n].ok) =>
            /\ r.status = "UNIXERR" /\ r.frame = NoFrame
            /\ FailedVictim(r) /\ NothingLost(r)

\* C22's case: the victim that allocBuf reaches holds a modified page, its
\* write-back fails, and a readPage of a page that is not resident returns
\* the error.
C22_Witness ==
  LET a == allocBuf(BM, FALSE)
  IN /\ a.status = "UNIXERR"
     /\ bufPool[a.clockHand] # disk[KeyOf(bufTable[a.clockHand])]
     /\ \E file \in Files, pageNo \in PageNos :
          /\ ~Resident(file, pageNo)
          /\ readPage(BM, file, pageNo, FALSE, TRUE).status = "UNIXERR"

\* C23: when file.readPage fails on a miss after allocBuf handed out a frame,
\* readPage returns the read error; that frame is invalid with pinCnt = 0 and
\* dirty = false and no index entry points to it; no frame's pinCnt has
\* increased; disposePage(file, pageNo) has been invoked on the requested page.
C23_FailedRead ==
  \A file \in Files, pageNo \in PageNos, wOK \in BOOLEAN :
    ~Resident(file, pageNo) =>
      LET r == readPage(BM, file, pageNo, wOK, FALSE)
      IN (r.allocFrame # NoFrame) =>
           /\ r.status = "UNIXERR" /\ r.frame = NoFrame
           /\ Cardinality(Calls(r, "readPage")) = 1
           /\ \A n \in Calls(r, "readPage") :
                r.calls[n].file = file /\ r.calls[n].pageNo = pageNo /\ ~r.calls[n].ok
           /\ ~r.bufTable[r.allocFrame].valid
           /\ r.bufTable[r.allocFrame].pinCnt = 0
           /\ ~r.bufTable[r.allocFrame].dirty
           /\ r.bufTable[r.allocFrame].file = NULL
           /\ \A k \in Keys : r.hashTable[k] # r.allocFrame
           /\ r.hashTable[<<file, pageNo>>] = NoFrame
           /\ r.bufPool = bufPool
           /\ \A i \in Frames : r.bufTable[i].pinCnt <= bufTable[i].pinCnt
           /\ Cardinality(Calls(r, "disposePage")) = 1
           /\ \A n \in Calls(r, "disposePage") :
                /\ r.calls[n].file = file /\ r.calls[n].pageNo = pageNo
                /\ \A m \in Calls(r, "readPage") : m < n

\* C23's case: the pool is full, allocBuf evicts a modified page for the
\* miss, and the disk read of the requested page then fails.
C23_Witness ==
  \E file \in Files, pageNo \in PageNos :
    /\ ~Resident(file, pageNo)
    /\ \A i \in Frames : bufTable[i].valid
    /\ LET r == readPage(BM, file, pageNo, TRUE, FALSE)
       IN /\ r.status = "UNIXERR" /\ r.allocFrame # NoFrame
          /\ Calls(r, "writePage") # {}
          /\ Calls(r, "disposePage") # {}

\* C28: every invalid frame descriptor has file = null, so flushFile(F) never
\* returns BADBUFFER for a real file F.
C28_NoBadBuffer ==
  /\ \A i \in Frames : ~bufTable[i].valid => bufTable[i].file = NULL
  /\ \A file \in Files, wfail \in WFail :
       flushFile(BM, file, wfail).status # "BADBUFFER"

\* C28's case: flushFile(F) walks over a frame that held a page of F and was
\* invalidated (by allocBuf, disposePage or an earlier flushFile).
C28_Witness ==
  \E file \in Files, i \in Frames :
    /\ ~bufTable[i].valid
    /\ bufPool[i] # 0
    /\ \E j \in Frames : j > i /\ bufTable[j].valid /\ bufTable[j].file = file
    /\ flushFile(BM, file, -1).status = "OK"

\* C24: scanNext never hands the empty-page status to its caller: every call
\* on a scan handle returns OK or FILEEOF, and a scan of a file without
\* records returns FILEEOF, also when it starts after endScan.
C24_NoEmptyPageStatus ==
  heapFile.kind = "scan" =>
    LET r == scanNext(HF)
    IN /\ r.status \in {"OK", "FILEEOF"}
       /\ FileRids = <<>> => r.status = "FILEEOF"

\* The number of records stored in the data pages pageNo .. n - 1 of the
\* file, as the buffer manager r holds them.
RECURSIVE StoredFrom(_, _, _)
StoredFrom(r, pageNo, n) ==
  IF pageNo >= n
  THEN 0
  ELSE Len(PageRids(ContentIn(r, <<TheFile, pageNo>>), -1))
         + StoredFrom(r, pageNo + 1, n)

\* C26: headerPage.recCnt is accurate: with a handle open, getRecCnt() equals
\* the number of records stored in the file's data pages, and it still does
\* after a deleteRecord whatever status that call returns.
C26_RecCntAccurate ==
  heapFile.kind # "none" =>
    /\ HeaderPage(HF).recCnt = StoredFrom(BM, 1, allocated)
    /\ (heapFile.kind = "scan" /\ heapFile.curPage # NoFrame) =>
         LET r == deleteRecord(HF)
         IN HeaderPage(r).recCnt = StoredFrom(r.bm, 1, r.allocated)

\* A scanNext that ended in r found the end of the file again and moved
\* nothing: the cursor and every pin count are as before, and the scan holds
\* its one pin on the last data page.
StillAtEnd(r) ==
  /\ r.status = "FILEEOF"
  /\ r.f.curPageNo = heapFile.curPageNo
  /\ r.f.curRec = heapFile.curRec
  /\ r.f.curPage = heapFile.curPage
  /\ \A i \in FramesHF : r.bm.bufTable[i].pinCnt = bufTable[i].pinCnt
  /\ r.bm.calls = <<>>
  /\ heapFile.curPage # NoFrame
  /\ bufTable[heapFile.curPage].valid
  /\ bufTable[heapFile.curPage].pageNo = heapFile.curPageNo
  /\ bufTable[heapFile.curPage].pinCnt = 1
  /\ CurPage(HF).nextPage = -1

\* C27 as stated: once scanNext has returned FILEEOF, every further scanNext
\* with no resetScan, endScan or new scan in between (insertRecord is no
\* operation of a scan handle) returns FILEEOF again and changes neither
\* curPageNo, curRec nor any pin count.
C27_EofStable ==
  (heapFile.kind = "scan" /\ hist.eof # "no") => StillAtEnd(scanNext(HF))

\* C27, amended: the same, with no getRecord(rid, rec) in between either.
C27_EofStableUnmoved ==
  (heapFile.kind = "scan" /\ hist.eof = "eof") => StillAtEnd(scanNext(HF))

\* C27's case: a scan of a file with records on two pages has returned
\* FILEEOF, a record was deleted since, and scanNext is called again.
C27_Witness ==
  /\ heapFile.kind = "scan" /\ hist.eof = "eof"
  /\ hist.deleted > 0
  /\ heapFile.curPageNo > 1
  /\ heapFile.curDirtyFlag
  /\ scanNext(HF).status = "FILEEOF"

\* The handle holds frame i as its cursor page.
IsCursor(i) ==
  /\ heapFile.kind # "none"
  /\ heapFile.curPage = i
  /\ bufTable[i].pageNo = heapFile.curPageNo
  /\ bufTable[i].pinCnt > 0

\* Every modification of a data page that has not reached the disk is either
\* marked in the pool or noted in the flag of the handle that still pins the
\* page as its cursor.
ModificationsTracked ==
  \A i \in FramesHF :
    (bufTable[i].valid /\ bufTable[i].pageNo # 0 /\ bufPool[i] # disk[KeyOf(bufTable[i])]) =>
      bufTable[i].dirty \/ (IsCursor(i) /\ heapFile.curDirtyFlag)

\* The call that ended in r gave up the cursor page of this state.
Released(r) ==
  r.f.kind = "none" \/ r.f.curPage = NoFrame \/ r.f.curPageNo # heapFile.curPageNo

\* The cursor page of this state is dirty in the pool of r, or has been
\* written to the disk since.
CursorPageDirty(r) ==
  LET k == <<TheFile, heapFile.curPageNo>>
  IN IF r.bm.hashTable[k] # NoFrame
     THEN r.bm.bufTable[r.bm.hashTable[k]].dirty
     ELSE r.bm.disk[k] = bufPool[heapFile.curPage]

\* The calls by which the handle can give up its cursor page.
Releases ==
  IF heapFile.kind = "scan"
  THEN {endScan(HF), resetScan(HF), DestroyHeapFileScan(HF)}
         \cup {getRecord(HF, hist.inserted[n]) : n \in 1 .. Len(hist.inserted)}
         \cup (IF scanNext(HF).status # Diverges THEN {scanNext(HF)} ELSE {})
  ELSE {insertRecord(HF, TheRec), DestroyInsertFileScan(HF)}
         \cup {getRecord(HF, hist.inserted[n]) : n \in 1 .. Len(hist.inserted)}

\* C25: a data page modified through the handle (insertRecord, deleteRecord,
\* markDirty on the cursor page) is dirty in the buffer pool once the handle
\* no longer pins it: every call that gives the cursor page up (getRecord to
\* another page, scanNext's page advance, resetScan, endScan, insert
\* overflow, destruction) unpins it with dirty = true.
C25_CursorDirtyReaches ==
  /\ ModificationsTracked
  /\ (heapFile.kind # "none" /\ heapFile.curPage # NoFrame /\ heapFile.curDirtyFlag) =>
       \A r \in Releases : Released(r) => CursorPageDirty(r)

\* C25's case: a record was deleted on the cursor page, which differs from
\* its copy on disk and is not yet dirty in the pool, and scanNext moves the
\* scan on to the next page.
C25_Witness ==
  /\ heapFile.kind = "scan" /\ heapFile.curPage # NoFrame /\ heapFile.curDirtyFlag
  /\ hist.deleted > 0
  /\ ~bufTable[heapFile.curPage].dirty
  /\ CurPage(HF) # disk[<<TheFile, heapFile.curPageNo>>]
  /\ scanNext(HF).f.curPageNo # heapFile.curPageNo
  /\ scanNext(HF).status = "OK"

====
